---- MODULE Spec2Model ----
(***************************************************************************)
(* DepFinder MCP: the evidence-based language-detection engine, the        *)
(* detection orchestrator (getLanguageInfo), the per-language detectors    *)
(* with their toolchain probes, and the server's tool-call handler.        *)
(*                                                                         *)
(* Real numbers of the program (weights, confidences) are kept as integer  *)
(* thousandths: 0.4 is 400, 1.0 is Unit.                                   *)
(***************************************************************************)
EXTENDS Integers, Sequences, FiniteSets, TLC

VARIABLES
  evidence,   \* the DetectionEvidence[] handed to calculateConfidenceScore
  scored,     \* whether calculateConfidenceScore has been applied to it
  score,      \* what calculateConfidenceScore returned for it
  call,       \* the call being served: the function entered and its arguments
  project,    \* what lies at projectPath
  cwd,        \* the marker files present in the server's working directory
  depCache,   \* the dependency cache entry under the project's key, if any
  pc,         \* where the call stands
  idx,        \* the detector getLanguageInfo's loop is at
  cur,        \* the result a detector's detect override is working on
  probe,      \* the toolchain probe that override is at
  child,      \* the child process exec spawned for the probe
  results,    \* getLanguageInfo's results array
  detectOut,  \* outcome of a detect call made from outside getLanguageInfo
  gliOut,     \* outcome of getLanguageInfo
  depsOut,    \* outcome of getDependencies
  handlerOut, \* outcome of the tool-call handler
  detectedLanguage, \* getDependencies' detectedLanguage
  depIdx,     \* the extractor getDependencies' sweep is at
  depResult,  \* getDependencies' result (empty when null)
  depBest,    \* the sweep's bestResult (empty when null)
  depErrors,  \* getDependencies' errors array
  depWarnings, \* getDependencies' warnings array
  now,        \* the clock Date.now() reads, in quarters of an hour
  cacheFile,  \* the detection cache's file for the call's cache key, if it exists
  toolchain,  \* the probe commands that succeed on this machine
  firstCall,  \* outcome of the first detect call with caching enabled
  secondCall, \* outcome of the second one
  lastSet,    \* the last DetectionCache.set that completed
  lastGet,    \* the last DetectionCache.get that completed
  configResults, \* what ConfigAnalyzer.analyze returned to the last detector run
  depSwept,   \* whether getDependencies ran its sweep over all extractors
  depReturned, \* the result getDependencies handed to formatResponse, if any
  raceFile,   \* the cache file of the key concurrent get and set calls share
  gets,       \* the concurrent DetectionCache.get calls, each at its await
  sets,       \* the concurrent DetectionCache.set calls, each at its await
  lastWrite,  \* the set call whose write reached the file last, if any
  root,       \* the segments of the project path the analyzers are run on
  tree,       \* the files below that path, as runs of like files
  treeDetector, \* the detector whose analyzers run on the tree
  extensionOut, \* what FileExtensionAnalyzer.analyze returned, once it has
  sourceOut,  \* what SourceCodeAnalyzer.analyze returned, once it has
  mtimes,     \* the modification time of each dependency file of the project
  depCachedUnder, \* the cache key the dependency cache entry was stored under
  depModified, \* whether a dependency file was modified after the first call
  depFromCache \* whether getDependencies answered from the cache

scoreVars == <<evidence, scored, score>>

callVars ==
  <<call, project, cwd, depCache, pc, idx, cur, probe, child, results, detectOut,
    gliOut, depsOut, handlerOut, detectedLanguage, depIdx, depResult, depBest,
    depErrors, depWarnings>>

cacheVars == <<now, cacheFile, toolchain, firstCall, secondCall, lastSet, lastGet>>

analysisVars == <<configResults>>

depVars == <<depSwept, depReturned>>

raceVars == <<raceFile, gets, sets, lastWrite>>

\* the variables of the component-level specifications
treeVars == <<root, tree, treeDetector, extensionOut, sourceOut>>

keyVars == <<mtimes, depCachedUnder, depModified, depFromCache>>

unitVars == <<raceVars, treeVars, keyVars>>

vars == <<scoreVars, callVars, cacheVars, analysisVars, depVars, unitVars>>

\* JavaScript's undefined / null / absent field
NoVal == "undefined"

\* 1.0 in thousandths
Unit == 1000

\* longest evidence list drawn as an input of calculateConfidenceScore
MaxEvidence == 3

Max(a, b) == IF a >= b THEN a ELSE b

Min(a, b) == IF a <= b THEN a ELSE b

Range(s) == {s[i] : i \in 1..Len(s)}

(***************************************************************************)
(* Scoring engine: ScoringUtils                                            *)
(***************************************************************************)

EvidenceTypes == {"file-extension", "config-file", "source-code", "directory-structure"}

\* the kinds whose details record carries a language field
LanguageTypes == {"file-extension", "config-file", "source-code"}

\* weights drawn for evidence items: zero, and the weights base.detect gives
\* file-extension (0.4) and config-file (0.7) evidence
EvidenceWeights == {0, 400, 700}

\* language tags drawn for evidence items (NoVal: empty or missing tag)
EvidenceLanguages == {"python", "javascript", "typescript", NoVal}

EvidenceItems ==
  {[type |-> t, weight |-> w, language |-> l] :
      t \in LanguageTypes, w \in EvidenceWeights, l \in EvidenceLanguages}
  \cup {[type |-> "directory-structure", weight |-> w, language |-> NoVal] :
      w \in EvidenceWeights}

\* evidenceByType: the items grouped by type, the groups in order of first
\* occurrence (Object.entries of the record built by the first loop)
RECURSIVE TypeOrder(_)
TypeOrder(ev) ==
  IF ev = <<>> THEN <<>>
  ELSE LET rest == TypeOrder(SubSeq(ev, 1, Len(ev) - 1))
           t == ev[Len(ev)].type
       IN IF t \in Range(rest) THEN rest ELSE Append(rest, t)

OfType(ev, t) == SelectSeq(ev, LAMBDA item : item.type = t)

RECURSIVE Flatten(_, _)
Flatten(ev, order) ==
  IF order = <<>> THEN <<>>
  ELSE OfType(ev, Head(order)) \o Flatten(ev, Tail(order))

\* the items in the order the two nested loops over evidenceByType visit them
evidenceByType(ev) == Flatten(ev, TypeOrder(ev))

getItemScore(item) == Unit

\* the language the conflict check reads from an item
ItemLanguage(item) ==
  IF item.type \in LanguageTypes THEN item.language ELSE NoVal

detectedLanguages(byType) ==
  {ItemLanguage(byType[i]) : i \in 1..Len(byType)} \ {NoVal}

detectLanguageConflictsGraduated(byType) ==
  [i \in 1..(Cardinality(detectedLanguages(byType)) - 1) |-> "Multiple languages detected"]

detectLanguageConflictsAlways(byType) ==
  IF Cardinality(detectedLanguages(byType)) > 0
  THEN <<"Multiple languages detected">> ELSE <<>>

detectLanguageConflicts(byType) ==
  IF Cardinality(detectedLanguages(byType)) > 1
  THEN <<"Multiple languages detected">> ELSE <<>>

\* penalty added for each detected conflict (0.2)
ConflictPenalty == 200

calculateConflictPenalty(byType) ==
  Len(detectLanguageConflicts(byType)) * ConflictPenalty

RECURSIVE TotalScore(_)
TotalScore(byType) ==
  IF byType = <<>> THEN 0
  ELSE Head(byType).weight * getItemScore(Head(byType)) + TotalScore(Tail(byType))

RECURSIVE TotalWeight(_)
TotalWeight(byType) ==
  IF byType = <<>> THEN 0
  ELSE Head(byType).weight + TotalWeight(Tail(byType))

calculateConfidenceScoreUnclamped(ev) ==
  IF Len(ev) = 0 THEN 0
  ELSE LET byType == evidenceByType(ev)
           totalScore == TotalScore(byType)
           totalWeight == TotalWeight(byType)
           confidence == IF totalWeight > 0 THEN totalScore \div totalWeight ELSE 0
       IN confidence - calculateConflictPenalty(byType)

calculateConfidenceScore(ev) ==
  IF Len(ev) = 0 THEN 0
  ELSE LET byType == evidenceByType(ev)
           totalScore == TotalScore(byType)
           totalWeight == TotalWeight(byType)
           confidence == IF totalWeight > 0 THEN totalScore \div totalWeight ELSE 0
           penalty == calculateConflictPenalty(byType)
       IN Max(0, Min(Unit, confidence - penalty))

(***************************************************************************)
(* Projects on disk                                                        *)
(***************************************************************************)

\* most files a project directory drawn as an input holds
MaxProjectFiles == 2

\* a file name split at its last dot, as getFileExtension splits it
N(stem, ext) == [stem |-> stem, ext |-> ext]

\* a file: its name, whether its content declares a runtime version, the
\* framework idiom its content carries, and whether its content is malformed
File(name, ver, idiom) == [name |-> name, ver |-> ver, idiom |-> idiom, bad |-> FALSE]

\* the same file with content its format's parser rejects
Malformed(f) == [f EXCEPT !.bad = TRUE]

\* the files projects are drawn from, in the order readdir lists them
FileUniverse ==
  << File(N("", ".python-version"), TRUE, NoVal),
     File(N("", ".ruby-version"), TRUE, NoVal),
     File(N("Cargo", ".toml"), TRUE, NoVal),
     File(N("Cargo", ".toml"), FALSE, NoVal),
     File(N("Gemfile", ""), FALSE, NoVal),
     File(N("Main", ".java"), FALSE, NoVal),
     File(N("app", ".js"), FALSE, "express"),
     File(N("go", ".mod"), TRUE, NoVal),
     File(N("index", ".ts"), FALSE, NoVal),
     File(N("lib", ".rb"), FALSE, NoVal),
     File(N("lib", ".rs"), FALSE, NoVal),
     File(N("main", ".go"), FALSE, NoVal),
     File(N("main", ".py"), FALSE, NoVal),
     File(N("package", ".json"), TRUE, NoVal),
     Malformed(File(N("package", ".json"), FALSE, NoVal)),
     File(N("pom", ".xml"), FALSE, NoVal),
     File(N("pyproject", ".toml"), TRUE, NoVal),
     File(N("tsconfig", ".json"), FALSE, NoVal),
     File(N("venv/pyvenv", ".cfg"), TRUE, NoVal) >>

UniqueNames(files) ==
  \A f, g \in files : f.name = g.name => f = g

\* a project path: one that cannot be listed, or a directory with its files
Projects ==
  {[valid |-> FALSE, files |-> {}]}
  \cup {[valid |-> TRUE, files |-> fs] :
          fs \in {s \in SUBSET Range(FileUniverse) :
                    Cardinality(s) <= MaxProjectFiles /\ UniqueNames(s)}}

\* marker files that may exist relative to the server's working directory
CwdMarkers == {"main.go"}

\* the version strings the model's files and toolchains report
ConfigVersion == "1.0"
FileVersion == "2.0"
ToolVersion == "3.0"

\* fs.readdir of the project: throws on a path that cannot be listed
listFilesRecursively(p) ==
  [threw |-> ~p.valid,
   files |-> SelectSeq(FileUniverse, LAMBDA f : f \in p.files)]

fileExists(p, name) == p.valid /\ \E f \in p.files : f.name = name

FileNamed(p, name) == CHOOSE f \in p.files : f.name = name

(***************************************************************************)
(* FileExtensionAnalyzer                                                   *)
(***************************************************************************)

extensionMap(ext) ==
  CASE ext = ".py" -> "python"
    [] ext = ".js" -> "javascript"
    [] ext = ".ts" -> "typescript"
    [] ext = ".java" -> "java"
    [] ext = ".rb" -> "ruby"
    [] ext = ".go" -> "go"
    [] ext = ".rs" -> "rust"
    [] ext = ".json" -> "json"
    [] ext = ".toml" -> "toml"
    [] ext = ".xml" -> "xml"
    [] OTHER -> "unknown"

\* the directories both analyzers leave out
skipDirectories ==
  {"node_modules", ".git", ".vscode", ".idea", "dist", "build", "target", "bin",
   "out", "coverage", ".next", ".nuxt", "vendor", "__pycache__"}

\* the segments filePath.split('/') gives before the file name: those of the
\* project path (an empty first one when it is absolute), then the
\* directories below it; the files of a flat project carry none
Directories(f) == IF "dirs" \in DOMAIN f THEN f.dirs ELSE <<>>

\* a file whose name ends with .min.js or .min.css
Minified(f) == "min" \in DOMAIN f /\ f.min

\* the file-type list of shouldSkipFile
SkippedType(f) ==
  f.name.ext \in {".lock", ".log", ".tmp", ".cache", ".map"} \/ Minified(f)

\* FileExtensionAnalyzer.shouldSkipFile: some segment of the path is a skipped
\* directory, or the file's type is skipped (no file drawn is itself named
\* like a skipped directory)
shouldSkipFile(f) ==
  \/ \E i \in 1..Len(Directories(f)) : Directories(f)[i] \in skipDirectories
  \/ SkippedType(f)

\* the extensions counted, in order of first occurrence
RECURSIVE ExtensionOrder(_, _)
ExtensionOrder(files, targets) ==
  IF files = <<>> THEN <<>>
  ELSE LET rest == ExtensionOrder(SubSeq(files, 1, Len(files) - 1), targets)
           e == files[Len(files)].name.ext
       IN IF shouldSkipFile(files[Len(files)]) \/ e = "" \/ e \notin targets
             \/ e \in Range(rest)
          THEN rest ELSE Append(rest, e)

CountOf(files, e) ==
  Cardinality({i \in 1..Len(files) : ~shouldSkipFile(files[i]) /\ files[i].name.ext = e})

\* results.sort((a, b) => b.count - a.count): stable insertion by count
RECURSIVE SortByCount(_)
SortByCount(rs) ==
  IF rs = <<>> THEN <<>>
  ELSE LET sorted == SortByCount(SubSeq(rs, 1, Len(rs) - 1))
           r == rs[Len(rs)]
           k == Cardinality({i \in 1..Len(sorted) : sorted[i].count >= r.count})
       IN SubSeq(sorted, 1, k) \o <<r>> \o SubSeq(sorted, k + 1, Len(sorted))

FileExtensionAnalyze(files, targets) ==
  LET order == ExtensionOrder(files, targets)
  IN SortByCount([i \in 1..Len(order) |->
                    [extension |-> order[i],
                     count |-> CountOf(files, order[i]),
                     language |-> extensionMap(order[i])]])

(***************************************************************************)
(* ConfigAnalyzer                                                          *)
(***************************************************************************)

detectLanguageFromFileName(name) ==
  CASE name = N("package", ".json") \/ name = N("tsconfig", ".json") -> "javascript"
    [] name = N("Cargo", ".toml") -> "rust"
    [] name \in {N("pyproject", ".toml"), N("setup", ".py"), N("requirements", ".txt")}
         -> "python"
    [] name = N("pom", ".xml") \/ name = N("build", ".gradle") -> "java"
    [] name.stem = "Gemfile" -> "ruby"
    [] name = N("go", ".mod") -> "go"
    [] OTHER -> "unknown"

ConfigResult(name, language, version, framework) ==
  [fileName |-> name, language |-> language, version |-> version,
   framework |-> framework]

\* a version extraction whose pattern never matches
DeclaredVersionUnmatched(f) == NoVal

DeclaredVersion(f) == IF f.ver THEN ConfigVersion ELSE NoVal

\* what analyze returned to a detector's run
Analyzed(d, rs) == [detector |-> d, results |-> rs]

NotAnalyzed == Analyzed(NoVal, <<>>)

\* the null a parser returns from its catch block
NullConfig == ConfigResult(N("", ""), NoVal, NoVal, NoVal)

\* readJsonFile: JSON.parse throws on malformed content
readJsonFileThrows(f) == f.bad

\* a parser that reports a file it could not parse by its name alone
parseConfigFilePartial(f) ==
  ConfigResult(f.name, detectLanguageFromFileName(f.name), NoVal, NoVal)

\* parseConfigFile: dispatch on the text after the last dot of the file name
parseConfigFile(f) ==
  LET name == f.name
      generic == ConfigResult(name, detectLanguageFromFileName(name), NoVal, NoVal)
  IN CASE name.ext = ".json" ->
            IF readJsonFileThrows(f) THEN NullConfig
            ELSE IF name = N("package", ".json")
            THEN ConfigResult(name, "javascript", DeclaredVersion(f), NoVal)
            ELSE IF name = N("tsconfig", ".json")
            THEN ConfigResult(name, "typescript", NoVal, NoVal)
            ELSE generic
       [] name.ext = ".toml" ->
            IF name = N("pyproject", ".toml")
            THEN ConfigResult(name, "python", DeclaredVersion(f), NoVal)
            ELSE IF name = N("Cargo", ".toml")
            THEN ConfigResult(name, "rust", DeclaredVersion(f), NoVal)
            ELSE generic
       [] name.ext = ".xml" ->
            IF name = N("pom", ".xml")
            THEN ConfigResult(name, "java", DeclaredVersion(f), NoVal)
            ELSE generic
       [] name.ext = ".txt" ->
            IF name = N("requirements", ".txt")
            THEN ConfigResult(name, "python", NoVal, NoVal)
            ELSE generic
       [] OTHER -> generic

\* one result per target file that exists and parses, in target order
RECURSIVE ConfigAnalyze(_, _)
ConfigAnalyze(p, targets) ==
  IF targets = <<>> THEN <<>>
  ELSE LET rest == ConfigAnalyze(p, Tail(targets))
       IN IF fileExists(p, Head(targets))
             /\ parseConfigFile(FileNamed(p, Head(targets))) # NullConfig
          THEN <<parseConfigFile(FileNamed(p, Head(targets)))>> \o rest
          ELSE rest

(***************************************************************************)
(* SourceCodeAnalyzer                                                      *)
(***************************************************************************)

SourceExtensions ==
  {".py", ".js", ".ts", ".jsx", ".tsx", ".java", ".rb", ".go", ".rs", ".php", ".cs"}

maxFilesToAnalyze == 20

getLanguageFromExtension(ext) ==
  CASE ext = ".py" -> "python"
    [] ext = ".js" -> "javascript"
    [] ext = ".ts" -> "typescript"
    [] ext = ".jsx" -> "react"
    [] ext = ".tsx" -> "react-typescript"
    [] ext = ".java" -> "java"
    [] ext = ".rb" -> "ruby"
    [] ext = ".go" -> "go"
    [] ext = ".rs" -> "rust"
    [] ext = ".php" -> "php"
    [] ext = ".cs" -> "csharp"
    [] OTHER -> "unknown"

normalizeLanguageForPatterns(language) ==
  CASE language = "react" -> "javascript"
    [] language = "react-typescript" -> "typescript"
    [] language = "unknown" -> "javascript"
    [] OTHER -> language

\* the keys of a detector's frameworkPatterns table, in declaration order
frameworkPatterns(d) ==
  CASE d = "python" -> <<"django", "flask", "fastapi">>
    [] d = "javascript" ->
         <<"javascript", "typescript", "react", "vue", "angular", "nextjs", "express">>
    [] d = "java" -> <<"spring", "jakarta", "maven", "gradle">>
    [] d = "ruby" -> <<"rails">>
    [] d = "go" -> <<"gin", "fiber">>
    [] d = "rust" -> <<"actix">>

\* whether some regular expression under a key matches a content's idiom;
\* an idiom is matched by one regular expression of a key at most
PatternsMatch(key, idiom) ==
  \/ idiom = "express" /\ key \in {"javascript", "express"}
  \/ idiom = "flask" /\ key = "flask"
  \/ idiom = "react" /\ key = "react"

\* the index in the content at which the idiom's text starts
MatchAt(f) == IF "at" \in DOMAIN f THEN f.at ELSE 0

\* pattern.test(content) on a /g regular expression: the search starts at the
\* lastIndex the expression kept from its last test
TestSucceeds(key, f, lastIndex) ==
  PatternsMatch(key, f.idiom) /\ MatchAt(f) >= lastIndex[key]

\* detectFrameworkFromContent: the first key of the table with a pattern
\* whose test succeeds. A failed test resets the expression's lastIndex, a
\* successful one leaves it behind the match.
detectFrameworkFromContent(f, table, lastIndex) ==
  LET hits == {i \in 1..Len(table) : TestSucceeds(table[i], f, lastIndex)}
      hit == IF hits = {} THEN Len(table) + 1
             ELSE CHOOSE i \in hits : \A j \in hits : i <= j
  IN [framework |-> IF hits = {} THEN NoVal ELSE table[hit],
      lastIndex |-> [k \in DOMAIN lastIndex |->
                       IF \E i \in 1..(hit - 1) : table[i] = k THEN 0
                       ELSE IF hit <= Len(table) /\ table[hit] = k THEN MatchAt(f) + 1
                       ELSE lastIndex[k]]]

\* extractPatterns over frameworkPatterns[normalizedLanguage] ?? []:
\* content.match(pattern) searches from the start
extractPatterns(idiom, table, key) ==
  IF key \in Range(table) /\ PatternsMatch(key, idiom) THEN {idiom} ELSE {}

\* SourceCodeAnalyzer.shouldSkipFile: the path includes '/dir/' for a skipped
\* directory, so the segment has a '/' before it, or the file's type is skipped
shouldSkipSourceFile(f) ==
  \/ \E i \in 2..Len(Directories(f)) : Directories(f)[i] \in skipDirectories
  \/ SkippedType(f)

RECURSIVE AnalyzeFiles(_, _, _)
\* the loop of SourceCodeAnalyzer.analyze over the files it kept: the regular
\* expressions of the table carry their lastIndex from file to file, and
\* content.match leaves those of the file's own language at 0
AnalyzeFiles(sample, table, lastIndex) ==
  IF sample = <<>> THEN <<>>
  ELSE LET f == Head(sample)
           language == getLanguageFromExtension(f.name.ext)
           key == normalizeLanguageForPatterns(language)
           found == detectFrameworkFromContent(f, table, lastIndex)
           matched == [k \in DOMAIN lastIndex |->
                         IF k = key THEN 0 ELSE found.lastIndex[k]]
       IN <<[fileName |-> f.name,
             file |-> f,
             language |-> language,
             framework |-> found.framework,
             patterns |-> extractPatterns(f.idiom, table, key)]>>
          \o AnalyzeFiles(Tail(sample), table, matched)

SourceCodeAnalyze(files, table) ==
  LET listed == SelectSeq(files, LAMBDA f : f.name.ext \in SourceExtensions)
      sliced == SubSeq(listed, 1, Min(maxFilesToAnalyze, Len(listed)))
      sample == SelectSeq(sliced, LAMBDA f : ~shouldSkipSourceFile(f))
  IN AnalyzeFiles(sample, table, [k \in Range(table) |-> 0])

(***************************************************************************)
(* Language detectors                                                      *)
(***************************************************************************)

\* the detectors in the order getLanguageInfo tries them, by languageName
Detectors == <<"python", "javascript", "java", "ruby", "go", "rust">>

fileExtensions(d) ==
  CASE d = "python" -> {".py"}
    [] d = "javascript" -> {".js", ".mjs", ".jsx", ".tsx", ".ts", ".mts", ".cts"}
    [] d = "java" -> {".java", ".class", ".jar", ".war"}
    [] d = "ruby" -> {".rb", ".rbw"}
    [] d = "go" -> {".go"}
    [] d = "rust" -> {".rs"}

configFiles(d) ==
  CASE d = "python" ->
         <<N("requirements", ".txt"), N("pyproject", ".toml"), N("setup", ".py"),
           N("setup", ".cfg"), N("Pipfile", ""), N("poetry", ".lock"),
           N("environment", ".yml"), N("environment", ".yaml"), N("conda", ".yml"),
           N("conda", ".yaml"), N("", ".python-version")>>
    [] d = "javascript" ->
         <<N("package", ".json"), N("package-lock", ".json"), N("yarn", ".lock"),
           N("pnpm-lock", ".yaml"), N("tsconfig", ".json"), N("jsconfig", ".json"),
           N("", ".nvmrc"), N("", ".node-version")>>
    [] d = "java" ->
         <<N("pom", ".xml"), N("build", ".gradle"), N("settings", ".gradle"),
           N("gradle", ".properties"), N("", ".java-version")>>
    [] d = "ruby" ->
         <<N("Gemfile", ""), N("Gemfile", ".lock"), N("", ".ruby-version"),
           N("Rakefile", "")>>
    [] d = "go" -> <<N("go", ".mod"), N("go", ".sum"), N("", ".go-version")>>
    [] d = "rust" ->
         <<N("Cargo", ".toml"), N("Cargo", ".lock"), N("rust-toolchain", ".toml")>>

\* results.find(r => r.language === languageName) || results[0]
FindMatching(rs, d) ==
  LET hits == {i \in 1..Len(rs) : rs[i].language = d}
  IN IF hits = {} THEN rs[1] ELSE rs[CHOOSE i \in hits : \A j \in hits : i <= j]

Returned(v) == [threw |-> FALSE, value |-> v]

Thrown == [threw |-> TRUE, value |-> NoVal]

\* VersionUtils.extractVersion: text.match throws on an undefined text
extractVersion(text) == IF text = NoVal THEN Thrown ELSE Returned(text)

\* extractRuntimeVersion of each detector; details is never set by ConfigAnalyzer
extractRuntimeVersion(d, cfgs) ==
  IF cfgs = <<>> THEN Returned(NoVal)
  ELSE LET cfg == FindMatching(cfgs, d)
           details == NoVal
       IN IF cfg.version # NoVal THEN Returned(cfg.version)
          ELSE CASE d = "java" /\ cfg.language = "java"
                      /\ cfg.fileName = N("build", ".gradle") -> extractVersion(details)
                 [] d = "rust" /\ cfg.language = "rust"
                      /\ cfg.fileName = N("Cargo", ".toml") -> extractVersion(details)
                 [] OTHER -> Returned(NoVal)

\* the marker files detectFramework looks for with an empty project path
MarkerFramework(d, wd) ==
  CASE d = "python" ->
         IF "manage.py" \in wd THEN "Django"
         ELSE IF "app.py" \in wd \/ "wsgi.py" \in wd THEN "Flask" ELSE NoVal
    [] d = "javascript" ->
         IF "_app.js" \in wd \/ "_document.js" \in wd THEN "Next.js"
         ELSE IF "src/App.js" \in wd THEN "Create React App" ELSE NoVal
    [] d = "java" ->
         IF "src/main/resources/application.properties" \in wd
            \/ "src/main/resources/application.yml" \in wd THEN "Spring"
         ELSE IF "src/main/webapp/WEB-INF/web.xml" \in wd
            \/ "src/main/resources/META-INF/beans.xml" \in wd
            \/ "src/main/resources/META-INF/persistence.xml" \in wd THEN "Jakarta EE"
         ELSE NoVal
    [] d = "ruby" ->
         IF "config/application.rb" \in wd THEN "Rails"
         ELSE IF "app.rb" \in wd THEN "Sinatra" ELSE NoVal
    [] d = "go" -> IF "main.go" \in wd THEN "Standard Library" ELSE NoVal
    [] d = "rust" -> IF "src/main.rs" \in wd THEN "Standard Library" ELSE NoVal

detectFramework(d, srcs, cfgs, wd) ==
  LET cfgFramework == IF cfgs = <<>> THEN NoVal ELSE FindMatching(cfgs, d).framework
      srcFramework == IF srcs = <<>> THEN NoVal ELSE FindMatching(srcs, d).framework
  IN IF cfgFramework # NoVal THEN cfgFramework
     ELSE IF srcFramework # NoVal THEN srcFramework
     ELSE MarkerFramework(d, wd)

Evidence(type, weight, language) ==
  [type |-> type, weight |-> weight, language |-> language]

\* the evidence list with one item for every observation, not only the best one
CollectEvidenceAll(d, files, cfgs, srcs) ==
  LET exts == FileExtensionAnalyze(files, fileExtensions(d))
  IN [i \in 1..Len(exts) |-> Evidence("file-extension", 400, exts[i].language)]
     \o [i \in 1..Len(cfgs) |-> Evidence("config-file", 700, cfgs[i].language)]
     \o [i \in 1..Len(srcs) |-> Evidence("source-code", 300, srcs[i].language)]

\* the evidence list BaseLanguageDetector.detect collects
CollectEvidence(d, files, cfgs, srcs) ==
  LET exts == FileExtensionAnalyze(files, fileExtensions(d))
  IN (IF exts # <<>> /\ FindMatching(exts, d).count > 0
      THEN <<Evidence("file-extension", 400, FindMatching(exts, d).language)>>
      ELSE <<>>)
     \o (IF cfgs # <<>>
         THEN <<Evidence("config-file", 700, FindMatching(cfgs, d).language)>>
         ELSE <<>>)
     \o (IF srcs # <<>> /\ FindMatching(srcs, d).patterns # {}
         THEN <<Evidence("source-code", 300, FindMatching(srcs, d).language)>>
         ELSE <<>>)

\* the evidence list a detector's run hands to calculateConfidenceScore
DetectEvidence(d, p) ==
  CollectEvidence(d, listFilesRecursively(p).files, ConfigAnalyze(p, configFiles(d)),
                  SourceCodeAnalyze(listFilesRecursively(p).files, frameworkPatterns(d)))

DetectionResult(language, runtimeVersion, framework, confidence) ==
  [language |-> language, runtimeVersion |-> runtimeVersion,
   framework |-> framework, confidence |-> confidence]

NoResult == DetectionResult(NoVal, NoVal, NoVal, 0)

\* BaseLanguageDetector.detect with the cache disabled
BaseDetect(d, p, wd) ==
  LET listing == listFilesRecursively(p)
      cfgs == ConfigAnalyze(p, configFiles(d))
      srcs == SourceCodeAnalyze(listing.files, frameworkPatterns(d))
      version == extractRuntimeVersion(d, cfgs)
  IN IF listing.threw \/ version.threw
     THEN [threw |-> TRUE, value |-> NoResult]
     ELSE [threw |-> FALSE,
           value |-> DetectionResult(
                       d, version.value, detectFramework(d, srcs, cfgs, wd),
                       calculateConfidenceScore(
                         CollectEvidence(d, listing.files, cfgs, srcs)))]

(***************************************************************************)
(* Detector overrides: file probes (Python) and toolchain probes           *)
(***************************************************************************)

\* a threshold no confidence reaches
confidenceThresholdAboveAll(options) == Unit + 1

\* options.confidenceThreshold || 0.3, the option held as <<>> when omitted
confidenceThresholdOrDefault(options) ==
  IF options = <<>> \/ options[1] = 0 THEN 300 ELSE options[1]

\* detectFromVirtualEnvironment: the version field of venv/pyvenv.cfg
detectFromVirtualEnvironment(p) ==
  IF fileExists(p, N("venv/pyvenv", ".cfg")) /\ FileNamed(p, N("venv/pyvenv", ".cfg")).ver
  THEN FileVersion ELSE NoVal

\* detectFromShebang: the first .py file whose shebang names a version
detectFromShebang(p) ==
  IF p.valid /\ \E f \in p.files : f.name.ext = ".py" /\ f.ver
  THEN FileVersion ELSE NoVal

WithVersion(r, v, floor) ==
  IF v = NoVal THEN r
  ELSE [r EXCEPT !.runtimeVersion = v, !.confidence = Max(r.confidence, floor)]

\* PythonDetector.detect after super.detect returned r
PythonDetect(r, p, options) ==
  LET venv == detectFromVirtualEnvironment(p)
      shebang == detectFromShebang(p)
      filled == IF r.runtimeVersion # NoVal THEN r
                ELSE IF venv # NoVal THEN [r EXCEPT !.runtimeVersion = venv]
                ELSE IF shebang # NoVal THEN [r EXCEPT !.runtimeVersion = shebang]
                ELSE r
  IN IF filled.confidence < confidenceThresholdOrDefault(options)
     THEN WithVersion(WithVersion(filled, venv, 400), shebang, 300)
     ELSE filled

\* the probes of a detector in the order detect awaits them: the command
\* spawned, the confidence floor on success, and whether .ruby-version is read first
Probe(cmd, floor, readsVersionFile) ==
  [cmd |-> cmd, floor |-> floor, readsVersionFile |-> readsVersionFile]

probes(d) ==
  CASE d = "ruby" -> <<Probe("rvm current", 400, TRUE),
                       Probe("rbenv version", 400, TRUE),
                       Probe("ruby --version", 400, FALSE)>>
    [] d = "go" -> <<Probe("go version", 400, FALSE),
                     Probe("go env GOROOT", 400, FALSE)>>
    [] d = "rust" -> <<Probe("rustup show active-toolchain", 400, FALSE),
                       Probe("rustc --version", 300, FALSE)>>
    [] OTHER -> <<>>

\* the content of .ruby-version, trimmed, when the file exists and is not empty
rubyVersionFile(p) ==
  IF fileExists(p, N("", ".ruby-version")) /\ FileNamed(p, N("", ".ruby-version")).ver
  THEN FileVersion ELSE NoVal

(***************************************************************************)
(* getLanguageInfo: selection of the best result                           *)
(***************************************************************************)

Truthy(v) == v # NoVal /\ v # ""

\* the reduce callback: whether current replaces best
ReplacesBestOnTie(current, best) ==
  \/ current.confidence > best.confidence
  \/ current.confidence = best.confidence

ReplacesBest(current, best) ==
  \/ current.confidence > best.confidence
  \/ /\ current.confidence = best.confidence
     /\ \/ Truthy(current.runtimeVersion) /\ ~Truthy(best.runtimeVersion)
        \/ /\ ~(~Truthy(current.runtimeVersion) /\ Truthy(best.runtimeVersion))
           /\ Truthy(current.framework) /\ ~Truthy(best.framework)

RECURSIVE Reduce(_, _)
Reduce(rs, best) ==
  IF rs = <<>> THEN best
  ELSE Reduce(Tail(rs), IF ReplacesBest(Head(rs), best) THEN Head(rs) ELSE best)

validResults(rs) == SelectSeq(rs, LAMBDA r : r.confidence > 700 \/ r.confidence > 300)

UnknownResultUndefined == DetectionResult(NoVal, NoVal, NoVal, 0)

UnknownResult == DetectionResult("unknown", NoVal, NoVal, 0)

bestResult(rs) ==
  IF validResults(rs) # <<>>
  THEN Reduce(validResults(rs), validResults(rs)[1])
  ELSE Reduce(rs, IF rs # <<>> THEN rs[1] ELSE UnknownResult)

(***************************************************************************)
(* Response envelopes                                                      *)
(***************************************************************************)

\* the record JSON.stringify writes: keys holds the fields that are defined
Json(keys, language, runtimeVersion, framework, confidence, error, dependencies, errors, warnings) ==
  [keys |-> keys, language |-> language, runtimeVersion |-> runtimeVersion,
   framework |-> framework, confidence |-> confidence, error |-> error,
   dependencies |-> dependencies, errors |-> errors, warnings |-> warnings]

TextItem(json) == [type |-> "text", text |-> json]

Pending == [state |-> "pending", content |-> <<>>]

ReturnedEnvelope(json) == [state |-> "returned", content |-> <<TextItem(json)>>]

ErrorJson(message) ==
  Json({"error"}, NoVal, NoVal, NoVal, 0, message, 0, <<>>, <<>>)

LanguageJson(best) ==
  Json({"language", "confidence"}
         \cup (IF best.runtimeVersion # NoVal THEN {"runtimeVersion"} ELSE {})
         \cup (IF best.framework # NoVal THEN {"framework"} ELSE {}),
       best.language, best.runtimeVersion, best.framework, best.confidence,
       NoVal, 0, <<>>, <<>>)

StubJson == Json({"success", "message"}, NoVal, NoVal, NoVal, 0, NoVal, 0, <<>>, <<>>)

(***************************************************************************)
(* Dependency extraction as getDependencies sees it                        *)
(***************************************************************************)

ExtractionResult(language, groups, errors, warnings) ==
  [language |-> language, groups |-> groups, errors |-> errors, warnings |-> warnings]

DependencyGroup(n) == [dependencies |-> n]

\* the manifest an extractor reads first
manifest(language) ==
  CASE language = "python" -> N("pyproject", ".toml")
    [] language = "javascript" -> N("package", ".json")
    [] language = "java" -> N("pom", ".xml")
    [] language = "ruby" -> N("Gemfile", "")
    [] language = "go" -> N("go", ".mod")
    [] language = "rust" -> N("Cargo", ".toml")

\* what extractor.extract(projectPath) can do: return one group holding the
\* manifest's dependencies (none without a manifest), or throw while reading it
ExtractOutcomes(language, p) ==
  IF fileExists(p, manifest(language))
  THEN {Returned(ExtractionResult(language, <<DependencyGroup(1)>>, <<>>, <<>>)),
        [threw |-> TRUE, value |-> ExtractionResult(language, <<>>, <<>>, <<>>)]}
  ELSE {Returned(ExtractionResult(language, <<DependencyGroup(0)>>, <<>>, <<>>))}

totalDeps(r) == IF r.groups = <<>> THEN 0 ELSE r.groups[1].dependencies

\* formatResponse
DependenciesJson(r) ==
  Json({"language", "dependencies"}
         \cup (IF r.errors # <<>> THEN {"errors"} ELSE {})
         \cup (IF r.warnings # <<>> THEN {"warnings"} ELSE {}),
       r.language, NoVal, NoVal, 0, NoVal, totalDeps(r), r.errors, r.warnings)

\* the record getDependencies' outer catch writes
DependenciesErrorJson(message) ==
  Json({"language", "groups", "errors"}, "unknown", NoVal, NoVal, 0, NoVal, 0,
       <<message>>, <<>>)

(***************************************************************************)
(* The calls                                                               *)
(***************************************************************************)

Call(fn, tool, args, detector, options) ==
  [fn |-> fn, tool |-> tool, args |-> args, detector |-> detector, options |-> options]

Tools == {"get_language_info", "get_dependencies", "generate_requirements", "no_such_tool"}

\* the confidenceThreshold options drawn: omitted, 0 and 0.9
ThresholdOptions == {<<>>, <<0>>, <<900>>}

Calls ==
  {Call("handler", t, a, NoVal, <<>>) :
       t \in Tools, a \in {"missing", "noProjectPath", "projectPath"}}
  \cup {Call("getLanguageInfo", NoVal, "projectPath", NoVal, <<>>),
        Call("getDependencies", NoVal, "projectPath", NoVal, <<>>)}
  \cup {Call("detect", NoVal, "projectPath", d, o) :
       d \in Range(Detectors), o \in ThresholdOptions}

ReadsProject(c) ==
  /\ c.args = "projectPath"
  /\ c.fn = "handler" => c.tool \in {"get_language_info", "get_dependencies"}

InDependencies(c) ==
  \/ c.fn = "getDependencies"
  \/ c.fn = "handler" /\ c.tool = "get_dependencies"

NoProject == [valid |-> FALSE, files |-> {}]

NoChild == [cmd |-> NoVal, hangs |-> FALSE]

DetectorIndex(d) == CHOOSE i \in 1..Len(Detectors) : Detectors[i] = d

\* a result an earlier getDependencies call may have cached for the project
CachedResult == ExtractionResult("python", <<DependencyGroup(1)>>, <<>>, <<>>)

(***************************************************************************)
(* DetectionCache and detect with caching enabled                          *)
(***************************************************************************)

\* the last instant of the clock
MaxTime == 3

\* most files a project of a cached detect call holds
MaxCacheProjectFiles == 1

\* 30 * 60 * 1000 milliseconds, in quarters of an hour
defaultTTL == 2

\* JSON.stringify of a detection result: undefined fields are not written
stringify(data) ==
  [keys |-> {"confidence"}
              \cup {k \in {"language", "runtimeVersion", "framework"} : data[k] # NoVal},
   fields |-> data]

parseLosesVersion(text) ==
  [language |-> IF "language" \in text.keys THEN text.fields.language ELSE NoVal,
   runtimeVersion |-> NoVal,
   framework |-> IF "framework" \in text.keys THEN text.fields.framework ELSE NoVal,
   confidence |-> text.fields.confidence]

\* JSON.parse of that text: a field that was not written reads as undefined
parse(text) ==
  [language |-> IF "language" \in text.keys THEN text.fields.language ELSE NoVal,
   runtimeVersion |->
     IF "runtimeVersion" \in text.keys THEN text.fields.runtimeVersion ELSE NoVal,
   framework |-> IF "framework" \in text.keys THEN text.fields.framework ELSE NoVal,
   confidence |-> text.fields.confidence]

\* a cache file holding {data, timestamp, ttl}
DetectionCacheEntry(data, timestamp, ttl) ==
  [parses |-> TRUE, data |-> stringify(data), timestamp |-> timestamp, ttl |-> ttl]

\* a cache file whose content JSON.parse rejects
CorruptFile ==
  [parses |-> FALSE, data |-> stringify(NoResult), timestamp |-> 0, ttl |-> 0]

\* Date.now() - entry.timestamp > entry.ttl
ExpiredAtTtl(entry, t) == t - entry.timestamp >= entry.ttl

Expired(entry, t) == t - entry.timestamp > entry.ttl

\* DetectionCache.get: the data (empty for null) and the file it leaves
DetectionCacheGet(file, t) ==
  IF file = <<>> \/ ~file[1].parses THEN [data |-> <<>>, file |-> file]
  ELSE IF Expired(file[1], t) THEN [data |-> <<>>, file |-> <<>>]
  ELSE [data |-> <<parse(file[1].data)>>, file |-> file]

\* what ensureDirectoryExists and writeTextFile can do
WriteOutcomes == {"written", "failed", "truncated"}

\* the file a set leaves behind, by what its write did
FileAfterWrite(file, data, t, ttl, outcome) ==
  CASE outcome = "written" -> <<DetectionCacheEntry(data, t, ttl)>>
    [] outcome = "truncated" -> <<CorruptFile>>
    [] OTHER -> file

DetectionCacheSetRethrows(file, data, t, ttl, outcome) ==
  [threw |-> outcome # "written", file |-> FileAfterWrite(file, data, t, ttl, outcome)]

\* DetectionCache.set: a failing write is logged, never thrown
DetectionCacheSet(file, data, t, ttl, outcome) ==
  [threw |-> FALSE, file |-> FileAfterWrite(file, data, t, ttl, outcome)]

\* BaseLanguageDetector.detect with options.cacheEnabled !== false
CachedBaseDetect(d, p, wd, file, t, outcome) ==
  LET got == DetectionCacheGet(file, t)
      base == BaseDetect(d, p, wd)
      put == DetectionCacheSet(got.file, base.value, t, defaultTTL, outcome)
  IN IF got.data # <<>>
     THEN [threw |-> FALSE, value |-> got.data[1], file |-> got.file,
           hit |-> TRUE, wrote |-> "none"]
     ELSE IF base.threw
     THEN [threw |-> TRUE, value |-> NoResult, file |-> got.file,
           hit |-> FALSE, wrote |-> "none"]
     ELSE [threw |-> put.threw, value |-> IF put.threw THEN NoResult ELSE base.value,
           file |-> put.file, hit |-> FALSE, wrote |-> outcome]

\* what a probe resolves with on a machine whose succeeding commands are tools
ProbeVersion(pr, p, tools) ==
  IF pr.readsVersionFile /\ rubyVersionFile(p) # NoVal THEN rubyVersionFile(p)
  ELSE IF pr.cmd \in tools THEN ToolVersion ELSE NoVal

RECURSIVE RunProbes(_, _, _, _)
RunProbes(r, ps, p, tools) ==
  IF ps = <<>> THEN r
  ELSE RunProbes(WithVersion(r, ProbeVersion(Head(ps), p, tools), Head(ps).floor),
                 Tail(ps), p, tools)

\* the detect override of a detector after super.detect returned r
DetectOverride(d, r, p, options, tools) ==
  IF d = "python" THEN PythonDetect(r, p, options)
  ELSE IF probes(d) # <<>> /\ r.confidence < confidenceThresholdOrDefault(options)
  THEN RunProbes(r, probes(d), p, tools)
  ELSE r

\* the record kept of a detect call: when it ran and what it did
CallRecord(done, time, threw, value, hit, wrote) ==
  [done |-> done, time |-> time, threw |-> threw, value |-> value, hit |-> hit,
   wrote |-> wrote]

NoCall == CallRecord(FALSE, 0, FALSE, NoResult, FALSE, "none")

\* the commands a detector's probes spawn
ProbeCommands(d) == {probes(d)[i].cmd : i \in 1..Len(probes(d))}

\* the data handed to DetectionCache.set directly
CacheData ==
  {DetectionResult("go", NoVal, NoVal, 0),
   DetectionResult("python", ConfigVersion, "Django", Unit)}

\* no concurrent cache call is under way
RaceIdle ==
  /\ raceFile = <<>>
  /\ gets = <<>>
  /\ sets = <<>>
  /\ lastWrite = NoVal

\* no analyzer is run on its own
TreeIdle ==
  /\ root = <<>>
  /\ tree = <<>>
  /\ treeDetector = NoVal
  /\ extensionOut = <<>>
  /\ sourceOut = <<>>

\* no dependency file has a modification time on record
KeyIdle ==
  /\ mtimes = <<>>
  /\ depCachedUnder = <<>>
  /\ depModified = FALSE
  /\ depFromCache = FALSE

\* the component-level specifications are at rest
UnitIdle == RaceIdle /\ TreeIdle /\ KeyIdle

(***************************************************************************)
(* ScoreSpec: calculateConfidenceScore applied to every bounded evidence   *)
(* list.                                                                   *)
(***************************************************************************)

ScoreInit ==
  /\ \E k \in 0..MaxEvidence : evidence \in [1..k -> EvidenceItems]
  /\ scored = FALSE
  /\ score = 0
  /\ call = Call("calculateConfidenceScore", NoVal, NoVal, NoVal, <<>>)
  /\ project = NoProject
  /\ cwd = {}
  /\ depCache = <<>>
  /\ pc = "score"
  /\ idx = 0
  /\ cur = NoResult
  /\ probe = 0
  /\ child = NoChild
  /\ results = <<>>
  /\ detectOut = [state |-> "pending", value |-> NoResult]
  /\ gliOut = Pending
  /\ depsOut = Pending
  /\ handlerOut = Pending
  /\ detectedLanguage = "unknown"
  /\ depIdx = 0
  /\ depResult = <<>>
  /\ depBest = <<>>
  /\ depErrors = <<>>
  /\ depWarnings = <<>>
  /\ now = 0
  /\ cacheFile = <<>>
  /\ toolchain = {}
  /\ firstCall = NoCall
  /\ secondCall = NoCall
  /\ lastSet = <<>>
  /\ lastGet = <<>>
  /\ configResults = NotAnalyzed
  /\ depSwept = FALSE
  /\ depReturned = <<>>
  /\ UnitIdle

Calculate ==
  /\ ~scored
  /\ scored' = TRUE
  /\ score' = calculateConfidenceScore(evidence)
  /\ UNCHANGED <<unitVars, evidence, callVars, cacheVars, analysisVars,
                 depVars>>

ScoreNext == Calculate

ScoreSpec == ScoreInit /\ [][ScoreNext]_vars

\* ---- claim-side definitions for the scoring claims ----

\* the distinct language tags the items of a list carry
TagsOf(ev) ==
  {ev[i].language : i \in {j \in 1..Len(ev) : ev[j].type \in LanguageTypes}} \ {NoVal}

PositiveWeights(ev) == \A i \in 1..Len(ev) : ev[i].weight > 0

RECURSIVE SumWeights(_)
SumWeights(ev) ==
  IF ev = <<>> THEN 0 ELSE Head(ev).weight + SumWeights(Tail(ev))

RECURSIVE SumWeightedScores(_)
SumWeightedScores(ev) ==
  IF ev = <<>> THEN 0 ELSE Head(ev).weight * Unit + SumWeightedScores(Tail(ev))

\* sum of weight x itemScore divided by sum of weight (itemScore is 1.0)
WeightedMean(ev) == SumWeightedScores(ev) \div SumWeights(ev)

\* C1: for every evidence list calculateConfidenceScore returns a value in
\* [0,1], and for the empty list exactly 0.
C1_ScoreInUnitInterval ==
  scored =>
    /\ score \in 0..Unit
    /\ (evidence = <<>> => score = 0)

C1_Witness ==
  /\ scored
  /\ Len(evidence) = MaxEvidence
  /\ Cardinality(TagsOf(evidence)) >= 2
  /\ score = 0

\* C2: when the items carry at least two distinct language tags, exactly 0.2 is
\* subtracted from the weighted mean, whether two or three languages appear.
C2_FlatPenalty ==
  (scored /\ PositiveWeights(evidence) /\ Cardinality(TagsOf(evidence)) >= 2)
    => score = WeightedMean(evidence) - 200

C2_Witness ==
  /\ scored
  /\ PositiveWeights(evidence)
  /\ Cardinality(TagsOf(evidence)) = 3
  /\ score = 800

\* C3: a non-empty list whose items all carry the same single language tag
\* scores the weighted mean, with nothing subtracted.
C3_SingleLanguageNoPenalty ==
  (/\ scored
   /\ evidence # <<>>
   /\ PositiveWeights(evidence)
   /\ \A i \in 1..Len(evidence) : evidence[i].type \in LanguageTypes
   /\ \A i \in 1..Len(evidence) : evidence[i].language # NoVal
   /\ Cardinality(TagsOf(evidence)) = 1)
    => score = WeightedMean(evidence)

C3_Witness ==
  /\ scored
  /\ Len(evidence) = MaxEvidence
  /\ PositiveWeights(evidence)
  /\ \A i \in 1..Len(evidence) : evidence[i].type \in LanguageTypes
  /\ TagsOf(evidence) = {"python"}
  /\ {evidence[i].language : i \in 1..Len(evidence)} = {"python"}
  /\ score = Unit

(***************************************************************************)
(* Spec: one call served by the server, step by step                       *)
(***************************************************************************)

CacheEntry(data, wellFormed) == [data |-> data, wellFormed |-> wellFormed]

Init ==
  /\ evidence = <<>>
  /\ scored = FALSE
  /\ score = 0
  /\ call \in Calls
  /\ project \in (IF ReadsProject(call) THEN Projects ELSE {NoProject})
  /\ cwd \in (IF ReadsProject(call) THEN SUBSET CwdMarkers ELSE {{}})
  /\ depCache \in (IF ReadsProject(call) /\ InDependencies(call)
                   THEN {<<>>, <<CacheEntry(CachedResult, TRUE)>>,
                         <<CacheEntry(CachedResult, FALSE)>>}
                   ELSE {<<>>})
  /\ pc = (CASE call.fn = "handler" -> "request"
             [] call.fn = "getDependencies" -> "deps"
             [] OTHER -> "detect")
  /\ idx = (IF call.fn = "detect" THEN DetectorIndex(call.detector) ELSE 1)
  /\ cur = NoResult
  /\ probe = 0
  /\ child = NoChild
  /\ results = <<>>
  /\ detectOut = [state |-> "pending", value |-> NoResult]
  /\ gliOut = Pending
  /\ depsOut = Pending
  /\ handlerOut = Pending
  /\ detectedLanguage = "unknown"
  /\ depIdx = 0
  /\ depResult = <<>>
  /\ depBest = <<>>
  /\ depErrors = <<>>
  /\ depWarnings = <<>>
  /\ now = 0
  /\ cacheFile = <<>>
  /\ toolchain = {}
  /\ firstCall = NoCall
  /\ secondCall = NoCall
  /\ lastSet = <<>>
  /\ lastGet = <<>>
  /\ configResults = NotAnalyzed
  /\ depSwept = FALSE
  /\ depReturned = <<>>
  /\ UnitIdle

\* the handler's catch block: the thrown message becomes an error record
HandlerCatch(message) == ReturnedEnvelope(ErrorJson(message))

\* the request handler up to the tool it dispatches to
CallToolRequest ==
  /\ pc = "request"
  /\ IF call.args = "missing"
     THEN /\ handlerOut' = ReturnedEnvelope(ErrorJson("Missing arguments"))
          /\ pc' = "done"
     ELSE CASE call.tool \in {"get_language_info", "get_dependencies"} ->
                 IF call.args = "noProjectPath"
                 THEN /\ handlerOut' = HandlerCatch("projectPath is required")
                      /\ pc' = "done"
                 ELSE /\ pc' = IF call.tool = "get_dependencies" THEN "deps" ELSE "detect"
                      /\ UNCHANGED handlerOut
            [] call.tool = "generate_requirements" ->
                 /\ handlerOut' = IF call.args = "noProjectPath"
                                  THEN HandlerCatch("projectPath is required")
                                  ELSE ReturnedEnvelope(StubJson)
                 /\ pc' = "done"
            [] OTHER ->
                 /\ handlerOut' = HandlerCatch("Unknown tool")
                 /\ pc' = "done"
  /\ UNCHANGED <<unitVars, depVars, analysisVars, cacheVars, scoreVars, call,
                 project, cwd, depCache, idx, cur, probe, child, results,
                 detectOut, gliOut, depsOut, detectedLanguage, depIdx,
                 depResult, depBest, depErrors, depWarnings>>

\* a detector's detect resolved with res: the caller of detect goes on
DetectResolved(res) ==
  IF call.fn = "detect"
  THEN /\ detectOut' = [state |-> "returned", value |-> res]
       /\ pc' = "done"
       /\ UNCHANGED <<idx, results>>
  ELSE /\ results' = IF res.confidence > 0 THEN Append(results, res) ELSE results
       /\ idx' = IF idx < Len(Detectors) THEN idx + 1 ELSE idx
       /\ pc' = IF idx < Len(Detectors) THEN "detect" ELSE "select"
       /\ UNCHANGED detectOut

\* a detector's detect threw: getLanguageInfo logs it and tries the next one
DetectRejected ==
  IF call.fn = "detect"
  THEN /\ detectOut' = [state |-> "thrown", value |-> NoResult]
       /\ pc' = "done"
       /\ UNCHANGED <<idx, results>>
  ELSE /\ idx' = IF idx < Len(Detectors) THEN idx + 1 ELSE idx
       /\ pc' = IF idx < Len(Detectors) THEN "detect" ELSE "select"
       /\ UNCHANGED <<results, detectOut>>

DetectOptions == IF call.fn = "detect" THEN call.options ELSE <<>>

\* detector.detect up to its first toolchain probe
Detect ==
  /\ pc = "detect"
  /\ LET d == Detectors[idx]
         base == BaseDetect(d, project, cwd)
     IN IF base.threw
        THEN DetectRejected /\ UNCHANGED <<cur, probe>>
        ELSE IF d = "python"
        THEN /\ DetectResolved(PythonDetect(base.value, project, DetectOptions))
             /\ UNCHANGED <<cur, probe>>
        ELSE IF probes(d) # <<>>
                /\ base.value.confidence < confidenceThresholdOrDefault(DetectOptions)
        THEN /\ cur' = base.value
             /\ probe' = 1
             /\ pc' = "probe"
             /\ UNCHANGED <<idx, results, detectOut>>
        ELSE DetectResolved(base.value) /\ UNCHANGED <<cur, probe>>
  /\ evidence' = IF listFilesRecursively(project).threw THEN evidence
                 ELSE DetectEvidence(Detectors[idx], project)
  /\ configResults' =
       IF listFilesRecursively(project).threw THEN configResults
       ELSE Analyzed(Detectors[idx], ConfigAnalyze(project, configFiles(Detectors[idx])))
  /\ UNCHANGED <<unitVars, depVars, cacheVars, scored, score, call, project,
                 cwd, depCache, child, gliOut, depsOut, handlerOut,
                 detectedLanguage, depIdx, depResult, depBest, depErrors,
                 depWarnings>>

\* a probe resolved with a version or with null (NoVal)
ProbeResolved(version) ==
  LET d == Detectors[idx]
      res == WithVersion(cur, version, probes(d)[probe].floor)
  IN IF probe < Len(probes(d))
     THEN /\ cur' = res
          /\ probe' = probe + 1
          /\ pc' = "probe"
          /\ UNCHANGED <<idx, results, detectOut>>
     ELSE /\ cur' = NoResult
          /\ probe' = 0
          /\ DetectResolved(res)

\* detectFromRVM, detectFromGoEnv, ...: up to the exec of the command
RunProbe ==
  /\ pc = "probe"
  /\ LET p == probes(Detectors[idx])[probe]
     IN IF p.readsVersionFile /\ rubyVersionFile(project) # NoVal
        THEN /\ ProbeResolved(rubyVersionFile(project))
             /\ UNCHANGED child
        ELSE /\ \E hangs \in BOOLEAN : child' = [cmd |-> p.cmd, hangs |-> hangs]
             /\ pc' = "wait"
             /\ UNCHANGED <<cur, probe, idx, results, detectOut>>
  /\ UNCHANGED <<unitVars, depVars, analysisVars, cacheVars, scoreVars, call,
                 project, cwd, depCache, gliOut, depsOut, handlerOut,
                 detectedLanguage, depIdx, depResult, depBest, depErrors,
                 depWarnings>>

\* the child process exits and exec's callback runs
ChildExit ==
  /\ pc = "wait"
  /\ ~child.hangs
  /\ \E out \in {"match", "nomatch", "error"} :
       IF child.cmd = "go env GOROOT" /\ out = "match"
       THEN /\ \E hangs \in BOOLEAN :
                 child' = [cmd |-> "$GOROOT/bin/go version", hangs |-> hangs]
            /\ UNCHANGED <<pc, cur, probe, idx, results, detectOut>>
       ELSE /\ child' = NoChild
            /\ ProbeResolved(IF out = "match" THEN ToolVersion ELSE NoVal)
  /\ UNCHANGED <<unitVars, depVars, analysisVars, cacheVars, scoreVars, call,
                 project, cwd, depCache, gliOut, depsOut, handlerOut,
                 detectedLanguage, depIdx, depResult, depBest, depErrors,
                 depWarnings>>

\* getLanguageInfo after its loop: filter, reduce, format, return
Select ==
  /\ pc = "select"
  /\ gliOut' = ReturnedEnvelope(LanguageJson(bestResult(results)))
  /\ IF InDependencies(call)
     THEN /\ detectedLanguage' = bestResult(results).language
          /\ results' = <<>>
          /\ pc' = "extract"
          /\ UNCHANGED handlerOut
     ELSE /\ handlerOut' = IF call.fn = "handler" THEN gliOut' ELSE handlerOut
          /\ pc' = "done"
          /\ UNCHANGED <<detectedLanguage, results>>
  /\ UNCHANGED <<unitVars, depVars, analysisVars, cacheVars, scoreVars, call,
                 project, cwd, depCache, idx, cur, probe, child, detectOut,
                 depsOut, depIdx, depResult, depBest, depErrors, depWarnings>>

\* getDependencies returned env: the handler, if it made the call, returns it
DependenciesReturn(env) ==
  /\ depsOut' = env
  /\ handlerOut' = IF call.fn = "handler" THEN env ELSE handlerOut
  /\ pc' = "done"

\* getDependencies: the cache lookup
GetDependenciesBegin ==
  /\ pc = "deps"
  /\ IF depCache # <<>>
     THEN DependenciesReturn(
            IF depCache[1].wellFormed
            THEN ReturnedEnvelope(DependenciesJson(depCache[1].data))
            ELSE ReturnedEnvelope(DependenciesErrorJson("TypeError")))
     ELSE /\ pc' = "detect"
          /\ UNCHANGED <<depsOut, handlerOut>>
  /\ UNCHANGED <<unitVars, depVars, analysisVars, cacheVars, scoreVars, call,
                 project, cwd, depCache, idx, cur, probe, child, results,
                 detectOut, gliOut, detectedLanguage, depIdx, depResult,
                 depBest, depErrors, depWarnings>>

NeedsSweep(result) ==
  \/ result = <<>>
  \/ result[1].groups = <<>>
  \/ result[1].groups[1].dependencies = 0

\* getDependencies: the extractor of the detected language
ExtractDetected ==
  /\ pc = "extract"
  /\ IF detectedLanguage # "unknown" /\ detectedLanguage \in Range(Detectors)
     THEN \E out \in ExtractOutcomes(detectedLanguage, project) :
            /\ depResult' = IF out.threw THEN <<>> ELSE <<out.value>>
            /\ depErrors' = IF out.threw THEN <<detectedLanguage>> ELSE <<>>
     ELSE /\ depResult' = <<>>
          /\ depErrors' = <<>>
  /\ IF NeedsSweep(depResult')
     THEN pc' = "sweep" /\ depIdx' = 1
     ELSE pc' = "finish" /\ UNCHANGED depIdx
  /\ UNCHANGED <<unitVars, depVars, analysisVars, cacheVars, scoreVars, call,
                 project, cwd, depCache, idx, cur, probe, child, results,
                 detectOut, gliOut, depsOut, handlerOut, detectedLanguage,
                 depBest, depWarnings>>

\* getDependencies: one extractor of the sweep over all extractors
ExtractSweep ==
  /\ pc = "sweep"
  /\ \E out \in ExtractOutcomes(Detectors[depIdx], project) :
       LET maxDependencies == IF depBest = <<>> THEN 0 ELSE totalDeps(depBest[1])
           best == IF ~out.threw /\ out.value.groups # <<>>
                      /\ totalDeps(out.value) > maxDependencies
                   THEN <<out.value>> ELSE depBest
       IN /\ depWarnings' = IF out.threw THEN Append(depWarnings, Detectors[depIdx])
                            ELSE depWarnings
          /\ IF depIdx < Len(Detectors)
             THEN /\ depIdx' = depIdx + 1
                  /\ depBest' = best
                  /\ UNCHANGED <<pc, depResult>>
             ELSE /\ depResult' = IF best # <<>> THEN best ELSE depResult
                  /\ depBest' = <<>>
                  /\ depIdx' = 0
                  /\ pc' = "finish"
  /\ UNCHANGED <<unitVars, depVars, analysisVars, cacheVars, scoreVars, call,
                 project, cwd, depCache, idx, cur, probe, child, results,
                 detectOut, gliOut, depsOut, handlerOut, detectedLanguage,
                 depErrors>>

\* getDependencies: the empty result, the cache write and the response
GetDependenciesEnd ==
  /\ pc = "finish"
  /\ LET result == IF depResult # <<>> THEN depResult[1]
                   ELSE ExtractionResult(detectedLanguage, <<>>, depErrors, depWarnings)
     IN /\ depCache' = <<CacheEntry(result, TRUE)>>
        /\ DependenciesReturn(ReturnedEnvelope(DependenciesJson(result)))
  /\ UNCHANGED <<unitVars, depVars, analysisVars, cacheVars, scoreVars, call,
                 project, cwd, idx, cur, probe, child, results, detectOut,
                 gliOut, detectedLanguage, depIdx, depResult, depBest,
                 depErrors, depWarnings>>

Next ==
  \/ CallToolRequest
  \/ Detect
  \/ RunProbe
  \/ ChildExit
  \/ Select
  \/ GetDependenciesBegin
  \/ ExtractDetected
  \/ ExtractSweep
  \/ GetDependenciesEnd

Spec == Init /\ [][Next]_vars

\* ---- claim-side definitions for the detection claims ----

\* the call is a getLanguageInfo call that has returned, its results array at hand
LanguageInfoReturned ==
  /\ pc = "done"
  /\ ~InDependencies(call)
  /\ call.fn \in {"getLanguageInfo", "handler"}
  /\ gliOut.state = "returned"

\* confidence first, then a resolved runtime version, then a resolved framework
Rank(r) ==
  4 * r.confidence + (IF r.runtimeVersion # NoVal THEN 2 ELSE 0)
    + (IF r.framework # NoVal THEN 1 ELSE 0)

\* the results above 0.3 if there are any, otherwise all results
Candidates(rs) ==
  IF \E i \in 1..Len(rs) : rs[i].confidence > 300
  THEN SelectSeq(rs, LAMBDA r : r.confidence > 300)
  ELSE rs

\* the earliest candidate that no candidate outranks
Preferred(rs) ==
  LET cands == Candidates(rs)
      top == {i \in 1..Len(cands) : \A j \in 1..Len(cands) : Rank(cands[j]) <= Rank(cands[i])}
  IN cands[CHOOSE i \in top : \A j \in top : i <= j]

ReturnedText(out) == out.content[1].text

\* C4: getLanguageInfo returns the highest-confidence result among those above
\* 0.3 if any, else among all results; equal confidences are decided by a
\* resolved runtimeVersion, then a resolved framework, then detector order.
C4_BestResultSelected ==
  (LanguageInfoReturned /\ results # <<>>)
    => ReturnedText(gliOut) = LanguageJson(Preferred(results))

C4_Witness ==
  /\ LanguageInfoReturned
  /\ Len(results) >= 2
  /\ results[1].confidence = results[2].confidence
  /\ results[1].confidence > 300
  /\ ReturnedText(gliOut).language = results[2].language
  /\ ReturnedText(gliOut).language # results[1].language

\* whether a project holds a file with one of the detector's extensions or one
\* of its configuration files
HasMatchingFiles(d, p) ==
  \E f \in p.files :
    \/ f.name.ext \in fileExtensions(d)
    \/ f.name \in Range(configFiles(d))

\* C5: a detector whose language has no matching file in the project returns
\* confidence 0, and getLanguageInfo never returns that language when another
\* detector produced a result.
C5_NoMatchingFilesExcluded ==
  /\ (/\ call.fn = "detect"
      /\ pc = "done"
      /\ detectOut.state = "returned"
      /\ project.valid
      /\ ~HasMatchingFiles(call.detector, project))
       => detectOut.value.confidence = 0
  /\ (/\ LanguageInfoReturned
      /\ project.valid
      /\ ReturnedText(gliOut).language \in Range(Detectors)
      /\ ~HasMatchingFiles(ReturnedText(gliOut).language, project))
       => Len(results) <= 1

\* C6: when no detector produced a result with confidence > 0, getLanguageInfo
\* returns the record {language: "unknown", confidence: 0}, not an error record.
C6_UnknownIsNormalResult ==
  (LanguageInfoReturned /\ results = <<>>)
    => /\ ReturnedText(gliOut).language = "unknown"
       /\ ReturnedText(gliOut).confidence = 0
       /\ ReturnedText(gliOut).keys = {"language", "confidence"}

C6_Witness ==
  /\ LanguageInfoReturned
  /\ results = <<>>
  /\ project.valid
  /\ project.files # {}
  /\ ReturnedText(gliOut).language = "unknown"

\* the outcome of the function the call entered
CallOutcome ==
  CASE call.fn = "handler" -> handlerOut
    [] call.fn = "getLanguageInfo" -> gliOut
    [] call.fn = "getDependencies" -> depsOut
    [] OTHER -> Pending

IsEnvelope(out) ==
  /\ out.state = "returned"
  /\ Len(out.content) = 1
  /\ out.content[1].type = "text"
  /\ out.content[1].text.keys # {}

\* a call that is not done can take a step: the probe it waits on, if any, completes
Continues == pc = "wait" => ENABLED ChildExit

\* C7: getLanguageInfo, getDependencies and the tool-call handler each resolve,
\* for every input, to an envelope with exactly one text item holding a JSON
\* record, and never throw or reject.
C7_AlwaysResolvesToEnvelope ==
  call.fn \in {"handler", "getLanguageInfo", "getDependencies"}
    => /\ pc = "done" => IsEnvelope(CallOutcome)
       /\ pc # "done" => Continues
       /\ gliOut.state # "thrown"
       /\ depsOut.state # "thrown"
       /\ handlerOut.state # "thrown"

\* C8: for a projectPath that does not exist or cannot be listed,
\* getLanguageInfo returns a record with an error field, not a language result.
C8_InvalidPathIsError ==
  (~project.valid /\ gliOut.state = "returned")
    => "error" \in ReturnedText(gliOut).keys

\* C9: a toolchain probe waiting on its child process always has a step that
\* completes it, whether or not the child ever exits.
C9_ProbeCompletes ==
  (pc = "wait" /\ child.hangs) => ENABLED ChildExit

\* the configured threshold: 0.3 when the option is omitted
ConfiguredThreshold(options) == IF options = <<>> THEN 300 ELSE options[1]

SharedFlow == BaseDetect(call.detector, project, cwd)

\* C10: for Ruby, Go and Rust with threshold t and shared-flow confidence c:
\* with c >= t no probe runs and the shared-flow result is returned unchanged;
\* with c < t the final confidence is c, max(c, 0.3) or max(c, 0.4); a
\* failing probe never raises.
C10_ThresholdGatesProbes ==
  (/\ call.fn = "detect"
   /\ call.detector \in {"ruby", "go", "rust"}
   /\ ~SharedFlow.threw)
    => LET c == SharedFlow.value.confidence
           t == ConfiguredThreshold(call.options)
       IN /\ detectOut.state # "thrown"
          /\ c >= t => pc \notin {"probe", "wait"}
          /\ (c >= t /\ pc = "done") => detectOut.value = SharedFlow.value
          /\ (c < t /\ pc = "done")
               => detectOut.value.confidence \in {c, Max(c, 300), Max(c, 400)}

\* the weights of an evidence list, summed
RECURSIVE WeightSum(_)
WeightSum(ev) == IF ev = <<>> THEN 0 ELSE Head(ev).weight + WeightSum(Tail(ev))

\* C14: the evidence list of a detector run holds at most one file-extension
\* item, one config-file item and one source-code item, so its weights sum to
\* at most 1.4.
C14_EvidenceBounded ==
  /\ \A t \in {"file-extension", "config-file", "source-code"} :
       Cardinality({i \in 1..Len(evidence) : evidence[i].type = t}) <= 1
  /\ \A i \in 1..Len(evidence) :
       evidence[i].type \in {"file-extension", "config-file", "source-code"}
  /\ WeightSum(evidence) <= 1400

C14_Witness ==
  /\ pc \in {"detect", "select", "done"}
  /\ Len(evidence) = 3
  /\ WeightSum(evidence) = 1400
  /\ Cardinality(project.files) = MaxProjectFiles

\* whether parsing a file fails: JSON is the one format parsed by a parser
\* that rejects content
ParseFails(f) == f.bad /\ f.name.ext = ".json"

\* C15: a candidate config file whose parsing fails is omitted from what
\* ConfigAnalyzer.analyze returns, and every other candidate file that is
\* present and parses still has its observation.
C15_ParseFailureOmitted ==
  configResults.detector # NoVal
    => LET rs == configResults.results
           targets == Range(configFiles(configResults.detector))
       IN /\ \A f \in project.files :
               (f.name \in targets /\ ParseFails(f))
                 => \A i \in 1..Len(rs) : rs[i].fileName # f.name
          /\ \A f \in project.files :
               (f.name \in targets /\ ~ParseFails(f))
                 => \E i \in 1..Len(rs) : rs[i].fileName = f.name

C15_Witness ==
  /\ configResults.detector = "javascript"
  /\ \E f \in project.files : f.name = N("package", ".json") /\ ParseFails(f)
  /\ Len(configResults.results) = 1
  /\ configResults.results[1].fileName = N("tsconfig", ".json")

\* a project holding only a pyproject.toml that declares requires-python and
\* one .py file
ScenarioA ==
  [valid |-> TRUE,
   files |-> {File(N("pyproject", ".toml"), TRUE, NoVal),
              File(N("main", ".py"), FALSE, NoVal)}]

\* C16: on a project holding only a pyproject.toml declaring requires-python
\* and one .py file, the Python detector returns confidence > 0.7 and the
\* declared version as runtimeVersion.
C16_ScenarioA ==
  (/\ call.fn = "detect" /\ call.detector = "python"
   /\ project = ScenarioA
   /\ pc = "done")
    => /\ detectOut.state = "returned"
       /\ detectOut.value.confidence > 700
       /\ detectOut.value.runtimeVersion = ConfigVersion

C16_Witness ==
  /\ call.fn = "detect" /\ call.detector = "python"
  /\ project = ScenarioA
  /\ pc = "done"
  /\ detectOut.state = "returned"
  /\ detectOut.value = DetectionResult("python", ConfigVersion, NoVal, Unit)
  /\ Len(evidence) = 2

(***************************************************************************)
(* CacheSpec: two detect calls with caching enabled on an unchanged        *)
(* project and machine, and DetectionCache.set / get called directly       *)
(***************************************************************************)

\* the files the projects of cached detect calls are drawn from
CacheFileNames ==
  {N("", ".ruby-version"), N("Cargo", ".toml"), N("main", ".go"), N("main", ".py"),
   N("package", ".json"), N("pyproject", ".toml"), N("venv/pyvenv", ".cfg")}

CacheProjects ==
  {p \in Projects : /\ Cardinality(p.files) <= MaxCacheProjectFiles
                    /\ \A f \in p.files : f.name \in CacheFileNames /\ f.ver}

\* the options of cached detect calls: the threshold omitted or 0.9
CacheOptions == {<<>>, <<900>>}

\* the cache file an earlier detect call on the same project left, if any
EarlierFiles(d, p, wd) ==
  {<<>>, <<CorruptFile>>}
  \cup (IF BaseDetect(d, p, wd).threw THEN {}
        ELSE {<<DetectionCacheEntry(BaseDetect(d, p, wd).value, 0, defaultTTL)>>})

CacheInit ==
  /\ evidence = <<>>
  /\ scored = FALSE
  /\ score = 0
  /\ call \in {c \in Calls : c.fn = "detect" /\ c.options \in CacheOptions}
              \cup {Call("DetectionCache", NoVal, NoVal, NoVal, <<>>)}
  /\ project \in (IF call.fn = "detect" THEN CacheProjects ELSE {NoProject})
  /\ cwd = {}
  /\ depCache = <<>>
  /\ pc = "cache"
  /\ idx = (IF call.fn = "detect" THEN DetectorIndex(call.detector) ELSE 1)
  /\ cur = NoResult
  /\ probe = 0
  /\ child = NoChild
  /\ results = <<>>
  /\ detectOut = [state |-> "pending", value |-> NoResult]
  /\ gliOut = Pending
  /\ depsOut = Pending
  /\ handlerOut = Pending
  /\ detectedLanguage = "unknown"
  /\ depIdx = 0
  /\ depResult = <<>>
  /\ depBest = <<>>
  /\ depErrors = <<>>
  /\ depWarnings = <<>>
  /\ now = 0
  /\ cacheFile \in (IF call.fn = "detect"
                    THEN EarlierFiles(call.detector, project, cwd)
                    ELSE {<<>>, <<CorruptFile>>})
  /\ toolchain \in (IF call.fn = "detect" THEN SUBSET ProbeCommands(call.detector)
                    ELSE {{}})
  /\ firstCall = NoCall
  /\ secondCall = NoCall
  /\ lastSet = <<>>
  /\ lastGet = <<>>
  /\ configResults = NotAnalyzed
  /\ depSwept = FALSE
  /\ depReturned = <<>>
  /\ UnitIdle

\* time passes
Tick ==
  /\ now < MaxTime
  /\ now' = now + 1
  /\ UNCHANGED <<unitVars, depVars, analysisVars, scoreVars, callVars,
                 cacheFile, toolchain, firstCall, secondCall, lastSet,
                 lastGet>>

\* detector.detect(projectPath, options) with caching enabled, start to return
DetectCached ==
  /\ call.fn = "detect"
  /\ ~secondCall.done
  /\ \E outcome \in WriteOutcomes :
       LET base == CachedBaseDetect(call.detector, project, cwd, cacheFile, now, outcome)
           value == IF base.threw THEN NoResult
                    ELSE DetectOverride(call.detector, base.value, project,
                                        call.options, toolchain)
           record == CallRecord(TRUE, now, base.threw, value, base.hit, base.wrote)
       IN /\ cacheFile' = base.file
          /\ IF firstCall.done
             THEN secondCall' = record /\ UNCHANGED firstCall
             ELSE firstCall' = record /\ UNCHANGED secondCall
  /\ UNCHANGED <<unitVars, depVars, analysisVars, scoreVars, callVars, now,
                 toolchain, lastSet, lastGet>>

\* the ttl values handed to set: none, a quarter of an hour, the default
Ttls == {0, 1, defaultTTL}

\* DetectionCache.set(key, data, ttl) called directly
CacheSet ==
  /\ call.fn = "DetectionCache"
  /\ \E data \in CacheData, ttl \in Ttls, outcome \in WriteOutcomes :
       /\ cacheFile' = DetectionCacheSet(cacheFile, data, now, ttl, outcome).file
       /\ lastSet' = <<[data |-> data, timestamp |-> now, ttl |-> ttl,
                        outcome |-> outcome]>>
  /\ lastGet' = <<>>
  /\ UNCHANGED <<unitVars, depVars, analysisVars, scoreVars, callVars, now,
                 toolchain, firstCall, secondCall>>

\* DetectionCache.get(key) called directly
CacheGet ==
  /\ call.fn = "DetectionCache"
  /\ cacheFile' = DetectionCacheGet(cacheFile, now).file
  /\ lastGet' = <<[time |-> now, data |-> DetectionCacheGet(cacheFile, now).data]>>
  /\ UNCHANGED <<unitVars, depVars, analysisVars, scoreVars, callVars, now,
                 toolchain, firstCall, secondCall, lastSet>>

CacheNext ==
  \/ Tick
  \/ DetectCached
  \/ CacheSet
  \/ CacheGet

CacheSpec == CacheInit /\ [][CacheNext]_vars

Uncached ==
  DetectOverride(call.detector, BaseDetect(call.detector, project, cwd).value,
                 project, call.options, toolchain)

\* C13: when writing the cache entry fails, detect with caching enabled still
\* returns the computed detection result and raises no error.
C13_WriteFailureIgnored ==
  \A c \in {firstCall, secondCall} :
    (c.done /\ c.wrote \in {"failed", "truncated"})
      => ~c.threw /\ c.value = Uncached

C13_Witness ==
  /\ firstCall.done /\ firstCall.wrote = "failed" /\ ~firstCall.threw
  /\ firstCall.value.confidence > 0
  /\ secondCall.done /\ secondCall.wrote = "truncated" /\ ~secondCall.threw
  /\ secondCall.value = Uncached

(***************************************************************************)
(* Dependency extraction in detail: strings, parsers, extractors           *)
(***************************************************************************)

\* A string is a sequence of one-character strings; the empty sequence also
\* stands for an undefined string field (both are falsy in the code).

MaxDepFiles == 2

UpperCase ==
  <<"A", "B", "C", "D", "E", "F", "G", "H", "I", "J", "K", "L", "M",
    "N", "O", "P", "Q", "R", "S", "T", "U", "V", "W", "X", "Y", "Z">>

LowerCase ==
  <<"a", "b", "c", "d", "e", "f", "g", "h", "i", "j", "k", "l", "m",
    "n", "o", "p", "q", "r", "s", "t", "u", "v", "w", "x", "y", "z">>

Digits == {"0", "1", "2", "3", "4", "5", "6", "7", "8", "9"}

\* String.prototype.trim
trim(s) ==
  LET inked == {i \in 1..Len(s) : s[i] # " "}
  IN IF inked = {} THEN <<>>
     ELSE SubSeq(s, CHOOSE i \in inked : \A j \in inked : i <= j,
                    CHOOSE i \in inked : \A j \in inked : j <= i)

\* String.prototype.toLowerCase over the letters the model's names use
toLowerCase(s) ==
  [i \in 1..Len(s) |->
     IF \E k \in 1..Len(UpperCase) : UpperCase[k] = s[i]
     THEN LowerCase[CHOOSE k \in 1..Len(UpperCase) : UpperCase[k] = s[i]]
     ELSE s[i]]

startsWith(s, prefix) ==
  Len(s) >= Len(prefix) /\ SubSeq(s, 1, Len(prefix)) = prefix

\* the part of s before its first sep, as s.split(sep)[0]
splitFirst(s, sep) ==
  LET at == {i \in 1..Len(s) : s[i] = sep}
  IN IF at = {} THEN s
     ELSE SubSeq(s, 1, (CHOOSE i \in at : \A j \in at : i <= j) - 1)

\* the part of s after its first sep
afterFirst(s, sep) ==
  LET at == {i \in 1..Len(s) : s[i] = sep}
  IN IF at = {} THEN <<>>
     ELSE SubSeq(s, (CHOOSE i \in at : \A j \in at : i <= j) + 1, Len(s))

\* the characters normalizeName's replace(/[^a-z0-9\-_.\/]/g, '') keeps
NameCharacters == Range(LowerCase) \cup Digits \cup {"-", "_", ".", "/"}

\* a Dependency (types.ts); scope is what PackageJsonParser adds
Dependency(name, version, versionConstraint, type, scope) ==
  [name |-> name, version |-> version, versionConstraint |-> versionConstraint,
   type |-> type, source |-> "registry", scope |-> scope]

\* DependencyNormalizer.normalizeName
normalizeName(name) ==
  IF name = <<>> THEN <<>>
  ELSE LET normalized == trim(name)
       IN IF startsWith(normalized, <<"@">>) THEN normalized
          ELSE SelectSeq(toLowerCase(normalized), LAMBDA c : c \in NameCharacters)

\* DependencyNormalizer.normalize
normalize(dep) ==
  [dep EXCEPT !.name = normalizeName(dep.name),
              !.version = trim(dep.version),
              !.versionConstraint = trim(dep.versionConstraint)]

\* DependencyNormalizer.normalizeAll
normalizeAll(deps) == [i \in 1..Len(deps) |-> normalize(deps[i])]

\* ---- the dependency files of a project ----

\* one declaration of a dependency file: a package.json property, a lockfile
\* package, a gem line; indent is the white space the line starts with
Entry(key, value) == [key |-> key, value |-> value, indent |-> 0]

Indented(e, n) == [e EXCEPT !.indent = n]

\* a dependency file: its name and the declarations of its sections
DepFile(name, dependencies, devDependencies, peerDependencies, optionalDependencies) ==
  [name |-> name, dependencies |-> dependencies,
   devDependencies |-> devDependencies, peerDependencies |-> peerDependencies,
   optionalDependencies |-> optionalDependencies, bad |-> FALSE]

\* the four lists a parser or an extractor works with
Lists(dependencies, devDependencies, peerDependencies, optionalDependencies) ==
  [dependencies |-> dependencies, devDependencies |-> devDependencies,
   peerDependencies |-> peerDependencies,
   optionalDependencies |-> optionalDependencies]

NoLists == Lists(<<>>, <<>>, <<>>, <<>>)

MapSeq(s, Op(_)) == [i \in 1..Len(s) |-> Op(s[i])]

Exact == <<"=", "=">>

\* the entry a lockfile parser builds: the resolved version and ==version
LockDependency(name, version, type) ==
  Dependency(name, version, Exact \o version, type, <<>>)

\* ---- PackageJsonParser ----

\* PackageJsonParser.parseDependency, its regular-constraint branch: the
\* model's package.json declares no git, workspace or path dependency
parseDependency(name, version, type) ==
  LET scope == splitFirst(SubSeq(name, 2, Len(name)), "/")
      packageName == afterFirst(name, "/")
      scopeMatch == startsWith(name, <<"@">>) /\ scope # <<>> /\ packageName # <<>>
  IN Dependency(IF scopeMatch THEN packageName ELSE name, <<>>, version, type,
                IF scopeMatch THEN scope ELSE <<>>)

\* PackageJsonParser.parse: empty lists when readJsonFile throws
PackageJsonParse(f) ==
  IF f.bad THEN NoLists
  ELSE Lists(MapSeq(f.dependencies, LAMBDA e : parseDependency(e.key, e.value, "runtime")),
             MapSeq(f.devDependencies, LAMBDA e : parseDependency(e.key, e.value, "development")),
             MapSeq(f.peerDependencies, LAMBDA e : parseDependency(e.key, e.value, "peer")),
             MapSeq(f.optionalDependencies, LAMBDA e : parseDependency(e.key, e.value, "optional")))

\* ---- NodeJSExtractor ----

NodeModules == <<"n", "o", "d", "e", "_", "m", "o", "d", "u", "l", "e", "s", "/">>

\* path.replace(/^node_modules\//, '').split('/')[0]
PackageLockName(path) ==
  splitFirst(IF startsWith(path, NodeModules)
             THEN SubSeq(path, Len(NodeModules) + 1, Len(path)) ELSE path, "/")

\* the packages of a lockfile section that parsePackageLock keeps
LockPackages(entries, type) ==
  MapSeq(SelectSeq(entries, LAMBDA e : e.key # <<>> /\ e.key \o <<"/">> # NodeModules),
         LAMBDA e : LockDependency(PackageLockName(e.key), e.value, type))

\* NodeJSExtractor.parsePackageLock, lockfileVersion 2 and later; readJsonFile
\* throws on malformed JSON
parsePackageLock(f) ==
  IF f.bad THEN [threw |-> TRUE, value |-> NoLists]
  ELSE Returned(Lists(LockPackages(f.dependencies, "runtime"),
                      LockPackages(f.devDependencies, "development"),
                      LockPackages(f.peerDependencies, "peer"),
                      LockPackages(f.optionalDependencies, "optional")))

\* BaseDependencyExtractor.createDependencyGroup: an empty optional list is an
\* absent property
createDependencyGroup(language, lists) ==
  [language |-> language, dependencies |-> lists.dependencies,
   devDependencies |-> lists.devDependencies,
   peerDependencies |-> lists.peerDependencies,
   optionalDependencies |-> lists.optionalDependencies]

\* BaseDependencyExtractor.createResult
createResult(language, groups, errors) ==
  ExtractionResult(language, groups, errors, <<>>)

\* NodeJSExtractor.extract over package-lock.json and package.json (the
\* model's projects hold no yarn.lock and no pnpm-lock.yaml)
NodeJSExtract(p) ==
  LET hasLock == fileExists(p, N("package-lock", ".json"))
      lock == IF hasLock THEN parsePackageLock(FileNamed(p, N("package-lock", ".json")))
              ELSE Returned(NoLists)
      hasManifest == fileExists(p, N("package", ".json"))
      manifestLists == IF hasManifest THEN PackageJsonParse(FileNamed(p, N("package", ".json")))
                       ELSE NoLists
      lists == IF ~hasManifest THEN lock.value
               ELSE IF lock.value.dependencies = <<>> THEN manifestLists
               ELSE [lock.value EXCEPT
                       !.peerDependencies = manifestLists.peerDependencies,
                       !.optionalDependencies = manifestLists.optionalDependencies]
  IN createResult("javascript", <<createDependencyGroup("javascript", lists)>>,
                  IF lock.threw THEN <<"Failed to parse package-lock.json">> ELSE <<>>)

\* ---- RubyExtractor ----

\* version.match(/[~><=]/)
HasOperator(s) == \E i \in 1..Len(s) : s[i] \in {"~", ">", "<", "="}

\* GemfileParser.parseGemLine
parseGemLine(e) ==
  Dependency(e.key, IF e.value # <<>> /\ ~HasOperator(e.value) THEN e.value ELSE <<>>,
             e.value, "runtime", <<>>)

\* GemfileParser.parse: the gems outside and inside development groups
GemfileParse(f) ==
  Lists(MapSeq(f.dependencies, parseGemLine), MapSeq(f.devDependencies, parseGemLine),
        <<>>, <<>>)

\* line.trim()
trimLine(e) == [e EXCEPT !.indent = 0]

\* the lines of a Gemfile.lock section parseGemfileLock turns into entries:
\* those whose trimmed text still starts with two spaces
GemLines(entries, type) ==
  MapSeq(SelectSeq(MapSeq(entries, trimLine), LAMBDA l : l.indent >= 2),
         LAMBDA l : LockDependency(l.key, l.value, type))

\* RubyExtractor.parseGemfileLock: the GEM and the DEPENDENCIES section
parseGemfileLock(f) ==
  Lists(GemLines(f.dependencies, "runtime"), GemLines(f.devDependencies, "development"),
        <<>>, <<>>)

FirstIndex(target, name) ==
  LET found == {i \in 1..Len(target) : target[i].name = name}
  IN IF found = {} THEN 0 ELSE CHOOSE i \in found : \A j \in found : i <= j

\* mergeDependencies of RubyExtractor and RustExtractor: one source entry
mergeConstraint(target, sourceDep) ==
  LET existingIndex == FirstIndex(target, sourceDep.name)
  IN IF existingIndex # 0
     THEN IF sourceDep.versionConstraint # <<>>
          THEN [target EXCEPT ![existingIndex].versionConstraint = sourceDep.versionConstraint]
          ELSE target
     ELSE Append(target, sourceDep)

RECURSIVE mergeDependencies(_, _)
mergeDependencies(target, source) ==
  IF source = <<>> THEN target
  ELSE mergeDependencies(mergeConstraint(target, Head(source)), Tail(source))

\* the lockfile-then-manifest order RubyExtractor.extract and
\* RustExtractor.extract share
LockThenManifest(hasManifest, lock, manifestLists) ==
  IF ~hasManifest THEN lock
  ELSE IF lock.dependencies = <<>>
  THEN [lock EXCEPT !.dependencies = manifestLists.dependencies,
                    !.devDependencies = manifestLists.devDependencies]
  ELSE [lock EXCEPT
          !.dependencies = mergeDependencies(lock.dependencies, manifestLists.dependencies),
          !.devDependencies = mergeDependencies(lock.devDependencies, manifestLists.devDependencies)]

\* RubyExtractor.extract
RubyExtract(p) ==
  LET lock == IF fileExists(p, N("Gemfile", ".lock"))
              THEN parseGemfileLock(FileNamed(p, N("Gemfile", ".lock"))) ELSE NoLists
      hasManifest == fileExists(p, N("Gemfile", ""))
      manifestLists == IF hasManifest THEN GemfileParse(FileNamed(p, N("Gemfile", "")))
                       ELSE NoLists
  IN createResult("ruby",
       <<createDependencyGroup("ruby", LockThenManifest(hasManifest, lock, manifestLists))>>,
       <<>>)

\* ---- RustExtractor ----

\* version.match(/^\d+\.\d+\.\d+/), for components of one digit
ExactTriple(s) ==
  /\ Len(s) >= 5
  /\ s[1] \in Digits /\ s[2] = "." /\ s[3] \in Digits /\ s[4] = "." /\ s[5] \in Digits

\* CargoParser.parseDependencyLine, the name = "version" format
parseCargoLine(e) ==
  Dependency(trim(e.key), IF ExactTriple(e.value) THEN e.value ELSE <<>>, e.value,
             "runtime", <<>>)

\* CargoParser.parse: [dependencies] and [dev-dependencies]
CargoParse(f) ==
  Lists(MapSeq(f.dependencies, parseCargoLine), MapSeq(f.devDependencies, parseCargoLine),
        <<>>, <<>>)

\* RustExtractor.parseCargoLock: every [[package]] is a runtime entry
parseCargoLock(f) ==
  Lists(MapSeq(f.dependencies, LAMBDA e : LockDependency(e.key, e.value, "runtime")),
        <<>>, <<>>, <<>>)

\* RustExtractor.extract
RustExtract(p) ==
  LET lock == IF fileExists(p, N("Cargo", ".lock"))
              THEN parseCargoLock(FileNamed(p, N("Cargo", ".lock"))) ELSE NoLists
      hasManifest == fileExists(p, N("Cargo", ".toml"))
      manifestLists == IF hasManifest THEN CargoParse(FileNamed(p, N("Cargo", ".toml")))
                       ELSE NoLists
  IN createResult("rust",
       <<createDependencyGroup("rust", LockThenManifest(hasManifest, lock, manifestLists))>>,
       <<>>)

\* ---- PythonExtractor ----

\* parseDependencyLine of PyprojectParser and RequirementsParser: the
\* constraint as written, the version when the operator is ==
parseDependencyLine(e) ==
  Dependency(trim(e.key),
             IF startsWith(e.value, Exact) THEN trim(SubSeq(e.value, 3, Len(e.value)))
             ELSE <<>>,
             e.value, "runtime", <<>>)

\* PythonExtractor.parsePipfileDependency
parsePipfileDependency(e) == Dependency(trim(e.key), <<>>, e.value, "runtime", <<>>)

\* PythonExtractor.mergeDependencies: one source entry; the lock entry's
\* fields replace the target's
mergeLockEntry(target, sourceDep) ==
  LET existingIndex == FirstIndex(target, sourceDep.name)
  IN IF existingIndex # 0
     THEN IF sourceDep.version # <<>>
          THEN [target EXCEPT ![existingIndex] = sourceDep]
          ELSE target
     ELSE Append(target, sourceDep)

RECURSIVE mergeLockDependencies(_, _)
mergeLockDependencies(target, source) ==
  IF source = <<>> THEN target
  ELSE mergeLockDependencies(mergeLockEntry(target, Head(source)), Tail(source))

\* PythonExtractor.extract over pyproject.toml, Pipfile, Pipfile.lock and
\* requirements.txt, in the order the code reads them
PythonExtract(p) ==
  LET pyproject == IF fileExists(p, N("pyproject", ".toml"))
                   THEN FileNamed(p, N("pyproject", ".toml")).dependencies ELSE <<>>
      optional == IF fileExists(p, N("pyproject", ".toml"))
                  THEN FileNamed(p, N("pyproject", ".toml")).optionalDependencies ELSE <<>>
      hasPipfile == fileExists(p, N("Pipfile", ""))
      pipfile == IF hasPipfile THEN FileNamed(p, N("Pipfile", "")).dependencies ELSE <<>>
      declared == MapSeq(pyproject, parseDependencyLine)
                    \o MapSeq(pipfile, parsePipfileDependency)
      lockDeps == IF hasPipfile /\ fileExists(p, N("Pipfile", ".lock"))
                  THEN MapSeq(FileNamed(p, N("Pipfile", ".lock")).dependencies,
                              LAMBDA e : LockDependency(e.key, e.value, "runtime"))
                  ELSE <<>>
      pipfileDev == IF hasPipfile THEN FileNamed(p, N("Pipfile", "")).devDependencies
                    ELSE <<>>
      lockDevDeps == IF hasPipfile /\ fileExists(p, N("Pipfile", ".lock"))
                     THEN MapSeq(FileNamed(p, N("Pipfile", ".lock")).devDependencies,
                                 LAMBDA e : LockDependency(e.key, e.value, "development"))
                     ELSE <<>>
      requirements == IF fileExists(p, N("requirements", ".txt"))
                      THEN FileNamed(p, N("requirements", ".txt")).dependencies ELSE <<>>
      requirementsDev == IF fileExists(p, N("requirements-dev", ".txt"))
                         THEN FileNamed(p, N("requirements-dev", ".txt")).dependencies
                         ELSE <<>>
  IN createResult("python",
       <<createDependencyGroup("python",
           Lists(mergeLockDependencies(declared, lockDeps)
                   \o MapSeq(requirements, parseDependencyLine),
                 mergeLockDependencies(MapSeq(pipfileDev, parsePipfileDependency),
                                       lockDevDeps)
                   \o MapSeq(requirementsDev, parseDependencyLine),
                 <<>>, MapSeq(optional, parseDependencyLine)))>>,
       <<>>)

\* ---- GoExtractor and JavaExtractor ----

\* the words go.mod's directives are written with
Require == <<"r", "e", "q", "u", "i", "r", "e">>

Replace == <<"r", "e", "p", "l", "a", "c", "e">>

Arrow == <<"=", ">">>

\* a line of go.mod: its words, the white space around them left out
GoLine(words) == [words |-> words]

\* version.split('+')[0].split('-')[0]
cleanVersion(version) == splitFirst(splitFirst(version, "+"), "-")

\* GomodParser.parseRequireLine: the first word after require is the module
\* path, the next one, if any, the version
parseRequireLine(line) ==
  LET modulePath == line.words[2]
      version == IF Len(line.words) >= 3 THEN line.words[3] ELSE <<>>
  IN Dependency(modulePath, cleanVersion(version),
                IF version # <<>> THEN Exact \o version ELSE <<>>, "runtime", <<>>)

\* the replace directive: the dependency named oldPath, if one was parsed
\* before, takes the new path and version
applyReplace(dependencies, line) ==
  LET oldPath == line.words[2]
      newPath == line.words[4]
      version == IF Len(line.words) >= 5 THEN line.words[5] ELSE <<>>
      depIndex == FirstIndex(dependencies, oldPath)
  IN IF depIndex = 0 THEN dependencies
     ELSE [dependencies EXCEPT ![depIndex] =
             [@ EXCEPT !.name = newPath,
                       !.source = IF startsWith(newPath, <<".", "/">>)
                                     \/ startsWith(newPath, <<".", ".", "/">>)
                                  THEN "path" ELSE "registry",
                       !.version = version,
                       !.versionConstraint = IF version # <<>> THEN Exact \o version
                                             ELSE <<>>]]

\* GomodParser.parseContent: one line
parseGomodLine(dependencies, line) ==
  IF line.words = <<>> \/ startsWith(line.words[1], <<"/", "/">>) THEN dependencies
  ELSE IF line.words[1] = Require /\ Len(line.words) >= 2
  THEN Append(dependencies, parseRequireLine(line))
  ELSE IF line.words[1] = Replace /\ Len(line.words) >= 4 /\ line.words[3] = Arrow
  THEN applyReplace(dependencies, line)
  ELSE dependencies

RECURSIVE parseContent(_, _)
\* GomodParser.parseContent over the lines left
parseContent(dependencies, lines) ==
  IF lines = <<>> THEN dependencies
  ELSE parseContent(parseGomodLine(dependencies, Head(lines)), Tail(lines))

\* GoExtractor.extract
GoExtract(p) ==
  createResult("go",
    <<createDependencyGroup("go",
        Lists(IF fileExists(p, N("go", ".mod"))
              THEN parseContent(<<>>, FileNamed(p, N("go", ".mod")).dependencies)
              ELSE <<>>, <<>>, <<>>, <<>>))>>,
    <<>>)

\* PomParser's <dependency>: the name is groupId:artifactId, the key holding
\* the pair
parsePomDependency(e) ==
  Dependency(trim(e.key[1]) \o <<":">> \o trim(e.key[2]), trim(e.value),
             IF trim(e.value) # <<>> THEN Exact \o trim(e.value) ELSE <<>>,
             "runtime", <<>>)

\* JavaExtractor.extract over pom.xml (the model's projects hold no build.gradle)
JavaExtract(p) ==
  createResult("java",
    <<createDependencyGroup("java",
        Lists(IF fileExists(p, N("pom", ".xml"))
              THEN MapSeq(FileNamed(p, N("pom", ".xml")).dependencies, parsePomDependency)
              ELSE <<>>, <<>>, <<>>, <<>>))>>,
    <<>>)

\* extractor.extract(projectPath) of the extractor named by its language
Extract(language, p) ==
  CASE language = "python" -> PythonExtract(p)
    [] language = "javascript" -> NodeJSExtract(p)
    [] language = "java" -> JavaExtract(p)
    [] language = "ruby" -> RubyExtract(p)
    [] language = "go" -> GoExtract(p)
    [] language = "rust" -> RustExtract(p)

\* ---- the projects getDependencies is called on ----

\* the dependency files a project may hold: a manifest and a lockfile of
\* each ecosystem that has both, with a scoped name, a capitalised name, a
\* padded version, and a lockfile holding two packages of one scope and two
\* versions of one crate
DepFileUniverse ==
  <<DepFile(N("package", ".json"),
             <<Entry(<<"q", "s">>, <<"^", "6", " ">>),
                Entry(<<"@", "O", "r", "g", "/", "U", "i">>, <<"^", "1">>)>>,
             <<>>, <<Entry(<<"v", "u", "e">>, <<"^", "3">>)>>, <<>>),
     DepFile(N("package-lock", ".json"),
             <<Entry(<<"n", "o", "d", "e", "_", "m", "o", "d", "u", "l", "e", "s", "/", "q", "s">>, <<"6", ".", "1", ".", "0">>),
                Entry(<<"n", "o", "d", "e", "_", "m", "o", "d", "u", "l", "e", "s", "/", "@", "o", "r", "g", "/", "u", "i">>, <<"1", ".", "2", ".", "0">>),
                Entry(<<"n", "o", "d", "e", "_", "m", "o", "d", "u", "l", "e", "s", "/", "@", "o", "r", "g", "/", "d", "b">>, <<"1", ".", "0", ".", "0">>)>>,
             <<>>, <<>>, <<>>),
     Malformed(DepFile(N("package-lock", ".json"),
             <<>>,
             <<>>, <<>>, <<>>)),
     DepFile(N("Gemfile", ""),
             <<Entry(<<"r", "a", "i", "l", "s">>, <<"~", ">", " ", "7">>)>>,
             <<Entry(<<"r", "s", "p", "e", "c">>, <<"3", ".", "1">>)>>, <<>>, <<>>),
     DepFile(N("Gemfile", ".lock"),
             <<Indented(Entry(<<"r", "a", "i", "l", "s">>, <<"7", ".", "0", ".", "4">>), 4)>>,
             <<Indented(Entry(<<"r", "a", "i", "l", "s">>, <<"~", ">", " ", "7">>), 2)>>, <<>>, <<>>),
     DepFile(N("Cargo", ".toml"),
             <<Entry(<<"s", "e", "r", "d", "e">>, <<"1">>)>>,
             <<>>, <<>>, <<>>),
     DepFile(N("Cargo", ".lock"),
             <<Entry(<<"s", "e", "r", "d", "e">>, <<"1", ".", "0", ".", "1">>),
                Entry(<<"s", "y", "n">>, <<"1", ".", "0", ".", "0">>),
                Entry(<<"s", "y", "n">>, <<"2", ".", "0", ".", "0">>)>>,
             <<>>, <<>>, <<>>),
     DepFile(N("pyproject", ".toml"),
             <<Entry(<<"f", "l", "a", "s", "k">>, <<">", "=", "2">>)>>,
             <<>>, <<>>, <<Entry(<<"r", "i", "c", "h">>, <<">", "=", "1">>)>>),
     DepFile(N("requirements", ".txt"),
             <<Entry(<<"f", "l", "a", "s", "k">>, <<"=", "=", "2", ".", "1">>),
                Entry(<<"J", "i", "n", "j", "a", "2">>, <<"=", "=", "3">>)>>,
             <<>>, <<>>, <<>>),
     DepFile(N("requirements-dev", ".txt"),
             <<Entry(<<"p", "y", "t", "e", "s", "t">>, <<"=", "=", "7">>)>>,
             <<>>, <<>>, <<>>),
     DepFile(N("requirements-dev", ".txt"),
             <<Entry(<<"p", "y", "t", "e", "s", "t">>, <<"=", "=", "8">>)>>,
             <<>>, <<>>, <<>>),
     DepFile(N("Pipfile", ""),
             <<Entry(<<"f", "l", "a", "s", "k">>, <<"*">>)>>,
             <<Entry(<<"p", "y", "t", "e", "s", "t">>, <<"*">>)>>, <<>>, <<>>),
     DepFile(N("Pipfile", ".lock"),
             <<Entry(<<"f", "l", "a", "s", "k">>, <<"2", ".", "1">>)>>,
             <<Entry(<<"p", "y", "t", "e", "s", "t">>, <<"7", ".", "0">>)>>, <<>>, <<>>),
     DepFile(N("go", ".mod"),
             <<GoLine(<<Require, <<"x", ".", "i", "o", "/", "F", "o", "o">>, <<"v", "1", ".", "2", ".", "0", "+", "i", "n", "c", "o", "m", "p", "a", "t", "i", "b", "l", "e">>>>)>>,
             <<>>, <<>>, <<>>),
     DepFile(N("go", ".mod"),
             <<GoLine(<<<<"/", "/", " ", "d", "e", "p", "s">>>>),
               GoLine(<<Require, <<"(">>>>),
               GoLine(<<<<"x", ".", "i", "o", "/", "b", "a", "r">>, <<"v", "1", ".", "0", ".", "0">>>>),
               GoLine(<<<<")">>>>)>>,
             <<>>, <<>>, <<>>),
     DepFile(N("go", ".mod"),
             <<GoLine(<<Require, <<"x", ".", "i", "o", "/", "b", "a", "z">>, <<"v", "0", ".", "0", ".", "0", "-", "2", "0", "2", "1", "-", "a", "b", "c">>>>)>>,
             <<>>, <<>>, <<>>),
     DepFile(N("go", ".mod"),
             <<GoLine(<<Require, <<"x", ".", "i", "o", "/", "o", "l", "d">>, <<"v", "1", ".", "0", ".", "0">>>>),
               GoLine(<<Replace, <<"x", ".", "i", "o", "/", "o", "l", "d">>, Arrow, <<"x", ".", "i", "o", "/", "n", "e", "w">>, <<"v", "2", ".", "0", ".", "0">>>>)>>,
             <<>>, <<>>, <<>>),
     DepFile(N("pom", ".xml"),
             <<Entry(<<<<"o", "r", "g", ".", "x">>, <<"L", "i", "b">>>>, <<"1", ".", "0", " ">>)>>,
             <<>>, <<>>, <<>>)>>

\* a project directory holding up to MaxDepFiles dependency files
DepProjects ==
  {[valid |-> TRUE, files |-> fs] :
     fs \in {s \in SUBSET Range(DepFileUniverse) :
               Cardinality(s) <= MaxDepFiles /\ UniqueNames(s)}}

\* ---- getDependencies, step by step ----

\* the language getLanguageInfo reports to getDependencies: the source files
\* that decide it are no input of any extractor, so every verdict is possible
\* for every set of dependency files ('unknown' also stands for a failed
\* detection)
LanguageVerdicts == Range(Detectors) \cup {"unknown"}

\* totalDeps of the sweep: the entries of the four lists of groups[0]
groupTotal(group) ==
  Len(group.dependencies) + Len(group.devDependencies)
    + Len(group.peerDependencies) + Len(group.optionalDependencies)

resultTotal(rs) ==
  IF rs = <<>> THEN 0
  ELSE IF rs[1].groups = <<>> THEN 0 ELSE groupTotal(rs[1].groups[1])

\* the condition under which getDependencies sweeps all extractors
SweepNeeded(result) ==
  \/ result = <<>>
  \/ result[1].groups = <<>>
  \/ result[1].groups[1].dependencies = <<>>

\* the sweep keeping only the first extractor that found anything
ExceedsNothingYet(total, maxDependencies) == maxDependencies = 0 /\ total > 0

\* the sweep's comparison
Exceeds(total, maxDependencies) == total > maxDependencies

\* the normalization loop over a group's lists
normalizeGroup(group) ==
  [group EXCEPT !.dependencies = normalizeAll(group.dependencies),
                !.devDependencies = normalizeAll(group.devDependencies),
                !.peerDependencies = normalizeAll(group.peerDependencies),
                !.optionalDependencies = normalizeAll(group.optionalDependencies)]

\* the files whose modification times make the cache key
dependencyFiles ==
  <<N("package", ".json"), N("package-lock", ".json"), N("yarn", ".lock"),
    N("pnpm-lock", ".yaml"), N("requirements", ".txt"), N("pyproject", ".toml"),
    N("Pipfile", ""), N("Pipfile", ".lock"), N("poetry", ".lock"), N("Gemfile", ""),
    N("Gemfile", ".lock"), N("go", ".mod"), N("Cargo", ".toml"), N("Cargo", ".lock"),
    N("pom", ".xml"), N("build", ".gradle"), N("build.gradle", ".kts")>>

\* DependencyCache.generateCacheKey: the project path with file:mtimeMs of
\* every listed file that exists
generateCacheKey(p, times) ==
  MapSeq(SelectSeq(dependencyFiles, LAMBDA n : fileExists(p, n)),
         LAMBDA n : <<n, times[n]>>)

DepInit ==
  /\ evidence = <<>>
  /\ scored = FALSE
  /\ score = 0
  /\ call = Call("getDependencies", NoVal, "projectPath", NoVal, <<>>)
  /\ project \in DepProjects
  /\ cwd = {}
  /\ depCache = <<>>
  /\ pc = "deps"
  /\ idx = 1
  /\ cur = NoResult
  /\ probe = 0
  /\ child = NoChild
  /\ results = <<>>
  /\ detectOut = [state |-> "pending", value |-> NoResult]
  /\ gliOut = Pending
  /\ depsOut = Pending
  /\ handlerOut = Pending
  /\ detectedLanguage = "unknown"
  /\ depIdx = 0
  /\ depResult = <<>>
  /\ depBest = <<>>
  /\ depErrors = <<>>
  /\ depWarnings = <<>>
  /\ now = 0
  /\ cacheFile = <<>>
  /\ toolchain = {}
  /\ firstCall = NoCall
  /\ secondCall = NoCall
  /\ lastSet = <<>>
  /\ lastGet = <<>>
  /\ configResults = NotAnalyzed
  /\ depSwept = FALSE
  /\ depReturned = <<>>
  /\ RaceIdle
  /\ TreeIdle
  /\ mtimes = [n \in {f.name : f \in project.files} |-> 0]
  /\ depCachedUnder = <<>>
  /\ depModified = FALSE
  /\ depFromCache = FALSE

\* getDependencies: the cache lookup; a hit is returned as it was stored
DepsLookup ==
  /\ pc = "deps"
  /\ depFromCache' = (depCache # <<>>
                        /\ depCachedUnder = generateCacheKey(project, mtimes))
  /\ IF depFromCache'
     THEN /\ depReturned' = <<depCache[1].data>>
          /\ DependenciesReturn(ReturnedEnvelope(DependenciesJson(depCache[1].data)))
     ELSE /\ pc' = "language"
          /\ UNCHANGED <<depsOut, handlerOut, depReturned>>
  /\ UNCHANGED <<raceVars, treeVars, mtimes, depCachedUnder, depModified,
                 analysisVars, cacheVars, scoreVars, call, project, cwd,
                 depCache, idx, cur, probe, child, results, detectOut, gliOut,
                 detectedLanguage, depIdx, depResult, depBest, depErrors,
                 depWarnings, depSwept>>

\* getDependencies: the language detection
DepsLanguage ==
  /\ pc = "language"
  /\ detectedLanguage' \in LanguageVerdicts
  /\ pc' = "extract"
  /\ UNCHANGED <<raceVars, treeVars, keyVars, analysisVars, cacheVars,
                 scoreVars, depVars, call, project, cwd, depCache, idx, cur,
                 probe, child, results, detectOut, gliOut, depsOut, handlerOut,
                 depIdx, depResult, depBest, depErrors, depWarnings>>

\* getDependencies: the extractor of the detected language, and whether the
\* sweep is needed
DepsDetected ==
  /\ pc = "extract"
  /\ depResult' = IF detectedLanguage # "unknown"
                  THEN <<Extract(detectedLanguage, project)>> ELSE <<>>
  /\ IF SweepNeeded(depResult')
     THEN pc' = "sweep" /\ depIdx' = 1 /\ depSwept' = TRUE
     ELSE pc' = "finish" /\ UNCHANGED <<depIdx, depSwept>>
  /\ UNCHANGED <<raceVars, treeVars, keyVars, analysisVars, cacheVars,
                 scoreVars, call, project, cwd, depCache, idx, cur, probe,
                 child, results, detectOut, gliOut, depsOut, handlerOut,
                 detectedLanguage, depBest, depErrors, depWarnings,
                 depReturned>>

\* getDependencies: one extractor of the sweep
DepsSweep ==
  /\ pc = "sweep"
  /\ LET extractResult == Extract(Detectors[depIdx], project)
         best == IF /\ extractResult.groups # <<>>
                    /\ Exceeds(groupTotal(extractResult.groups[1]), resultTotal(depBest))
                 THEN <<extractResult>> ELSE depBest
     IN IF depIdx < Len(Detectors)
        THEN /\ depIdx' = depIdx + 1
             /\ depBest' = best
             /\ UNCHANGED <<pc, depResult>>
        ELSE /\ depResult' = IF best # <<>> THEN best ELSE depResult
             /\ depBest' = <<>>
             /\ depIdx' = 0
             /\ pc' = "finish"
  /\ UNCHANGED <<raceVars, treeVars, keyVars, analysisVars, cacheVars,
                 scoreVars, call, project, cwd, depCache, idx, cur, probe,
                 child, results, detectOut, gliOut, depsOut, handlerOut,
                 detectedLanguage, depErrors, depWarnings, depVars>>

\* getDependencies: the empty result, the normalization, the cache write and
\* the response
DepsFinish ==
  /\ pc = "finish"
  /\ LET result == IF depResult # <<>> THEN depResult[1]
                   ELSE ExtractionResult(detectedLanguage, <<>>, depErrors, depWarnings)
         normalized == [result EXCEPT !.groups = MapSeq(result.groups, normalizeGroup)]
     IN /\ depCache' = <<CacheEntry(normalized, TRUE)>>
        /\ depCachedUnder' = generateCacheKey(project, mtimes)
        /\ depReturned' = <<normalized>>
        /\ DependenciesReturn(ReturnedEnvelope(DependenciesJson(normalized)))
  /\ UNCHANGED <<raceVars, treeVars, mtimes, depModified, depFromCache,
                 analysisVars, cacheVars, scoreVars, call, project, cwd, idx,
                 cur, probe, child, results, detectOut, gliOut,
                 detectedLanguage, depIdx, depResult, depBest, depErrors,
                 depWarnings, depSwept>>

\* a second getDependencies call on the project, within the cache's time to
\* live
DepsAgain ==
  /\ pc \in {"done", "modified"}
  /\ now = 0
  /\ now' = now + 1
  /\ pc' = "deps"
  /\ depsOut' = Pending
  /\ depResult' = <<>>
  /\ depSwept' = FALSE
  /\ depReturned' = <<>>
  /\ depFromCache' = FALSE
  /\ UNCHANGED <<raceVars, treeVars, mtimes, depCachedUnder, depModified,
                 analysisVars, scoreVars, call, project, cwd, depCache, idx, cur,
                 probe, child, results, detectOut, gliOut, handlerOut,
                 detectedLanguage, depIdx, depBest, depErrors, depWarnings,
                 cacheFile, toolchain, firstCall, secondCall, lastSet, lastGet>>

\* between the two calls one dependency file of the project is modified: its
\* content and its modification time change
ModifyFile ==
  /\ pc = "done"
  /\ now = 0
  /\ ~depModified
  /\ \E f \in project.files : \E g \in Range(DepFileUniverse) :
       /\ g.name = f.name
       /\ g # f
       /\ project' = [project EXCEPT !.files = (@ \ {f}) \cup {g}]
       /\ mtimes' = [mtimes EXCEPT ![f.name] = @ + 1]
  /\ depModified' = TRUE
  /\ pc' = "modified"
  /\ UNCHANGED <<raceVars, treeVars, depCachedUnder, depFromCache, analysisVars,
                 cacheVars, scoreVars, depVars, call, cwd, depCache, idx, cur,
                 probe, child, results, detectOut, gliOut, depsOut, handlerOut,
                 detectedLanguage, depIdx, depResult, depBest, depErrors,
                 depWarnings>>

DepNext ==
  \/ DepsLookup
  \/ DepsLanguage
  \/ DepsDetected
  \/ DepsSweep
  \/ DepsFinish
  \/ DepsAgain
  \/ ModifyFile

DepSpec == DepInit /\ [][DepNext]_vars

\* ---- claim-side definitions for the dependency claims ----

\* the number of entries extractor l finds in the project
ExtractorTotal(l) == resultTotal(<<Extract(l, project)>>)

\* the call has returned a result it extracted itself: the first call, which
\* finds the cache empty
ReturnedExtraction == pc = "done" /\ now = 0 /\ depReturned # <<>>

\* the detected language has no extractor to run, or its extractor found
\* no entry at all
DetectedEmpty ==
  detectedLanguage = "unknown" \/ ExtractorTotal(detectedLanguage) = 0

\* C17: when the extractor of the detected language is unavailable or finds
\* nothing, getDependencies sweeps all extractors, and whenever it has swept
\* no extractor's result holds more entries (runtime + development + peer +
\* optional) than the result it returns.
C17_SweepReturnsLargest ==
  ReturnedExtraction =>
    /\ DetectedEmpty => depSwept
    /\ depSwept =>
         \A l \in Range(Detectors) : ExtractorTotal(l) <= resultTotal(depReturned)

\* a sweep over a project in which a later extractor finds more entries than
\* an earlier one that also finds some, returning the later one's result
C17_Witness ==
  /\ ReturnedExtraction
  /\ DetectedEmpty
  /\ depSwept
  /\ \E i, j \in 1..Len(Detectors) :
       /\ i < j
       /\ 0 < ExtractorTotal(Detectors[i])
       /\ ExtractorTotal(Detectors[i]) < ExtractorTotal(Detectors[j])
       /\ depReturned[1].language = Detectors[j]
       /\ resultTotal(depReturned) = ExtractorTotal(Detectors[j])

\* the lockfile and the manifest of the ecosystems that have both
LockfileOf(l) ==
  CASE l = "javascript" -> N("package-lock", ".json")
    [] l = "ruby" -> N("Gemfile", ".lock")
    [] l = "rust" -> N("Cargo", ".lock")
    [] l = "python" -> N("Pipfile", ".lock")

ManifestOf(l) ==
  CASE l = "javascript" -> N("package", ".json")
    [] l = "ruby" -> N("Gemfile", "")
    [] l = "rust" -> N("Cargo", ".toml")
    [] l = "python" -> N("Pipfile", "")

LockingLanguages == {"javascript", "ruby", "rust", "python"}

\* every declaration of a dependency file, whatever its section
Declarations(f) ==
  Range(f.dependencies) \cup Range(f.devDependencies)
    \cup Range(f.peerDependencies) \cup Range(f.optionalDependencies)

\* the package a lockfile declaration names: package-lock.json keys its
\* packages by their path under node_modules
LockedName(l, e) ==
  IF l = "javascript" /\ startsWith(e.key, NodeModules)
  THEN SubSeq(e.key, Len(NodeModules) + 1, Len(e.key)) ELSE e.key

\* every entry of a result's group, whatever its list
ResultEntries(r) ==
  IF r.groups = <<>> THEN {}
  ELSE Range(r.groups[1].dependencies) \cup Range(r.groups[1].devDependencies)
         \cup Range(r.groups[1].peerDependencies)
         \cup Range(r.groups[1].optionalDependencies)

\* the project holds a readable lockfile and the manifest of language l
HasLockAndManifest(l, p) ==
  /\ fileExists(p, LockfileOf(l)) /\ ~FileNamed(p, LockfileOf(l)).bad
  /\ fileExists(p, ManifestOf(l))

\* getDependencies holds the result of an extractor
Extracted == pc \in {"sweep", "finish"} /\ depResult # <<>>

\* what C18 asks of the result r of the extractor of language l
LockAndManifestMerged(l, r) ==
  \A locked \in Declarations(FileNamed(project, LockfileOf(l))) :
    \A declared \in Declarations(FileNamed(project, ManifestOf(l))) :
      (LockedName(l, locked) = declared.key /\ ~HasOperator(locked.value)) =>
        \E d \in ResultEntries(r) :
          /\ d.name = declared.key
          /\ d.version = locked.value
          /\ trim(d.versionConstraint) = trim(declared.value)

\* C18: when a project holds both the lockfile and the manifest of an
\* ecosystem, every dependency named in both is in the extractor's result
\* with the version the lockfile resolved and the constraint the manifest
\* declares.
C18_LockVersionManifestConstraint ==
  (Extracted /\ depResult[1].language \in LockingLanguages
     /\ HasLockAndManifest(depResult[1].language, project)) =>
    LockAndManifestMerged(depResult[1].language, depResult[1])

\* no two entries of a list carry the same name
UniqueByName(deps) ==
  \A i, j \in 1..Len(deps) : deps[i].name = deps[j].name => i = j

UniqueLists(group) ==
  /\ UniqueByName(group.dependencies)
  /\ UniqueByName(group.devDependencies)
  /\ UniqueByName(group.peerDependencies)
  /\ UniqueByName(group.optionalDependencies)

\* C19: in the group an extractor returns, no list (runtime, development,
\* peer, optional) holds two entries of the same name.
C19_NamesUniquePerList ==
  Extracted => \A i \in 1..Len(depResult[1].groups) : UniqueLists(depResult[1].groups[i])

\* the name a declaration of file f gives its dependency: pom.xml names it
\* groupId:artifactId, package-lock.json by its path under node_modules,
\* go.mod by the word after require or the first word of a block's line
DeclaredName(f, e) ==
  CASE f.name = N("pom", ".xml") -> e.key[1] \o <<":">> \o e.key[2]
    [] f.name = N("package-lock", ".json") -> LockedName("javascript", e)
    [] f.name = N("go", ".mod") -> IF e.words # <<>> /\ e.words[1] = Require
                                   THEN e.words[2] ELSE e.words[1]
    [] OTHER -> e.key

\* the names the project's dependency files declare
DeclaredNames(p) ==
  UNION {{DeclaredName(f, e) : e \in Declarations(f)} : f \in p.files}

\* an npm scoped identifier
Scoped(name) == startsWith(name, <<"@">>)

\* the name C20 asks for: a scoped identifier as declared, any other name
\* in lower case
ExpectedName(name) == IF Scoped(name) THEN name ELSE toLowerCase(name)

Trimmed(s) == trim(s) = s

\* getDependencies has returned a result
DepsReturned == pc = "done" /\ depReturned # <<>>

\* C20: every dependency getDependencies returns carries the name some
\* dependency file declares, lower-cased unless it is a scoped identifier,
\* which is kept as declared, and its version and versionConstraint have no
\* leading or trailing white space.
C20_NamesAndVersionsNormalized ==
  DepsReturned =>
    \A d \in ResultEntries(depReturned[1]) :
      /\ d.name \in {ExpectedName(trim(n)) : n \in DeclaredNames(project)}
      /\ Trimmed(d.version)
      /\ Trimmed(d.versionConstraint)
\* ---- C21: go.mod's require directives ----

Incompatible == <<"+", "i", "n", "c", "o", "m", "p", "a", "t", "i", "b", "l", "e">>

\* line i of go.mod stands inside a require ( ... ) block
InRequireBlock(lines, i) ==
  \E j \in 1..(i - 1) :
    /\ lines[j].words = <<Require, <<"(">>>>
    /\ \A k \in j..i : lines[k].words # <<<<")">>>>

\* the require directives of a go.mod file, each a module path and the
\* version declared for it: on a line of their own or in a block
RequireDirectives(lines) ==
  {<<lines[i].words[2], lines[i].words[3]>> :
     i \in {k \in 1..Len(lines) : /\ Len(lines[k].words) = 3
                                  /\ lines[k].words[1] = Require}}
  \cup
  {<<lines[i].words[1], lines[i].words[2]>> :
     i \in {k \in 1..Len(lines) : /\ Len(lines[k].words) = 2
                                  /\ InRequireBlock(lines, k)}}

\* the declared version without a +incompatible suffix
WithoutIncompatible(v) ==
  IF Len(v) >= Len(Incompatible)
     /\ SubSeq(v, Len(v) - Len(Incompatible) + 1, Len(v)) = Incompatible
  THEN SubSeq(v, 1, Len(v) - Len(Incompatible)) ELSE v

\* s ends with the declared version v
Preserves(s, v) ==
  Len(s) >= Len(v) /\ SubSeq(s, Len(s) - Len(v) + 1, Len(s)) = v

\* the Go extractor has just parsed the go.mod of the project
GoExtracted ==
  /\ Extracted
  /\ depResult[1].language = "go"
  /\ fileExists(project, N("go", ".mod"))

\* C21: for every require directive of go.mod the parser returns a
\* dependency named by the directive's module path, whose version is the
\* declared version without its +incompatible suffix and whose
\* versionConstraint keeps the declared version, suffix included.
C21_RequireDirectivesParsed ==
  GoExtracted =>
    \A r \in RequireDirectives(FileNamed(project, N("go", ".mod")).dependencies) :
      \E d \in ResultEntries(depResult[1]) :
        /\ d.name = r[1]
        /\ d.version = WithoutIncompatible(r[2])
        /\ Preserves(d.versionConstraint, r[2])

\* ---- concurrent get and set calls on one key of a DetectionCache ----

\* the get calls and the set calls that run concurrently, the set calls
\* named by the data they store
Getters == {"g1", "g2"}

Setters == {"a", "b"}

\* no call runs while the server serves none
NoCallInProgress ==
  /\ evidence = <<>>
  /\ scored = FALSE
  /\ score = 0
  /\ call = Call("DetectionCache", NoVal, NoVal, NoVal, <<>>)
  /\ project = NoProject
  /\ cwd = {}
  /\ depCache = <<>>
  /\ pc = "idle"
  /\ idx = 0
  /\ cur = NoResult
  /\ probe = 0
  /\ child = NoChild
  /\ results = <<>>
  /\ detectOut = [state |-> "pending", value |-> NoResult]
  /\ gliOut = Pending
  /\ depsOut = Pending
  /\ handlerOut = Pending
  /\ detectedLanguage = "unknown"
  /\ depIdx = 0
  /\ depResult = <<>>
  /\ depBest = <<>>
  /\ depErrors = <<>>
  /\ depWarnings = <<>>
  /\ now = 0
  /\ cacheFile = <<>>
  /\ toolchain = {}
  /\ firstCall = NoCall
  /\ secondCall = NoCall
  /\ lastSet = <<>>
  /\ lastGet = <<>>
  /\ configResults = NotAnalyzed
  /\ depSwept = FALSE
  /\ depReturned = <<>>

\* the CacheEntry a set call builds
RaceEntry(data, timestamp, ttl) == [data |-> data, timestamp |-> timestamp, ttl |-> ttl]

RaceInit ==
  /\ NoCallInProgress
  /\ TreeIdle
  /\ KeyIdle
  /\ raceFile = <<>>
  /\ gets = [g \in Getters |-> [pc |-> "idle", entry |-> <<>>, after |-> NoVal,
                                 value |-> <<>>]]
  /\ sets = [s \in Setters |-> [pc |-> "idle", timestamp |-> 0]]
  /\ lastWrite = NoVal

\* the frame of the calls on the cache: everything but the clock, the file
\* and the calls themselves
RaceFrame ==
  UNCHANGED <<scoreVars, callVars, analysisVars, depVars, treeVars, keyVars, cacheFile,
              toolchain, firstCall, secondCall, lastSet, lastGet>>

\* time passes between two steps of the calls
RaceTick ==
  /\ now < MaxTime
  /\ now' = now + 1
  /\ UNCHANGED raceVars
  /\ RaceFrame

\* set is called and awaits init()
SetCalled(s) ==
  /\ sets[s].pc = "idle"
  /\ sets' = [sets EXCEPT ![s].pc = "init"]
  /\ UNCHANGED <<now, raceFile, gets, lastWrite>>
  /\ RaceFrame

\* init() has resolved: set builds its entry with Date.now() and awaits
\* writeTextFile
SetEntry(s) ==
  /\ sets[s].pc = "init"
  /\ sets' = [sets EXCEPT ![s] = [pc |-> "write", timestamp |-> now]]
  /\ UNCHANGED <<now, raceFile, gets, lastWrite>>
  /\ RaceFrame

\* writeTextFile replaces the file and set returns
SetWritten(s) ==
  /\ sets[s].pc = "write"
  /\ raceFile' = <<RaceEntry(s, sets[s].timestamp, defaultTTL)>>
  /\ lastWrite' = s
  /\ sets' = [sets EXCEPT ![s].pc = "done"]
  /\ UNCHANGED <<now, gets>>
  /\ RaceFrame

\* get is called and awaits readTextFile; the model notes the set call whose
\* entry the file holds if that call has returned
GetCalled(g) ==
  /\ gets[g].pc = "idle"
  /\ gets' = [gets EXCEPT ![g].pc = "read",
                          ![g].after = IF lastWrite # NoVal /\ raceFile # <<>>
                                       THEN lastWrite ELSE NoVal]
  /\ UNCHANGED <<now, raceFile, sets, lastWrite>>
  /\ RaceFrame

\* readTextFile reads the file, or throws and get returns null
GetRead(g) ==
  /\ gets[g].pc = "read"
  /\ gets' = IF raceFile = <<>>
             THEN [gets EXCEPT ![g].pc = "done", ![g].value = <<>>]
             ELSE [gets EXCEPT ![g].pc = "check", ![g].entry = raceFile]
  /\ UNCHANGED <<now, raceFile, sets, lastWrite>>
  /\ RaceFrame

\* get tests the entry it read against Date.now(): it returns the data or
\* calls delete, which awaits fileExists
GetChecked(g) ==
  /\ gets[g].pc = "check"
  /\ gets' = IF Expired(gets[g].entry[1], now)
             THEN [gets EXCEPT ![g].pc = "exists"]
             ELSE [gets EXCEPT ![g].pc = "done", ![g].value = <<gets[g].entry[1].data>>]
  /\ UNCHANGED <<now, raceFile, sets, lastWrite>>
  /\ RaceFrame

\* delete's fileExists has resolved: delete awaits unlink, or returns and
\* get returns null
GetExists(g) ==
  /\ gets[g].pc = "exists"
  /\ gets' = IF raceFile # <<>>
             THEN [gets EXCEPT ![g].pc = "unlink"]
             ELSE [gets EXCEPT ![g].pc = "done", ![g].value = <<>>]
  /\ UNCHANGED <<now, raceFile, sets, lastWrite>>
  /\ RaceFrame

\* unlink removes whatever file is there (or throws, which delete catches)
\* and get returns null
GetUnlinked(g) ==
  /\ gets[g].pc = "unlink"
  /\ raceFile' = <<>>
  /\ gets' = [gets EXCEPT ![g].pc = "done", ![g].value = <<>>]
  /\ UNCHANGED <<now, sets, lastWrite>>
  /\ RaceFrame

RaceNext ==
  \/ RaceTick
  \/ \E s \in Setters : SetCalled(s)
  \/ \E s \in Setters : SetEntry(s)
  \/ \E s \in Setters : SetWritten(s)
  \/ \E g \in Getters : GetCalled(g)
  \/ \E g \in Getters : GetRead(g)
  \/ \E g \in Getters : GetChecked(g)
  \/ \E g \in Getters : GetExists(g)
  \/ \E g \in Getters : GetUnlinked(g)

RaceSpec == RaceInit /\ [][RaceNext]_vars

\* get g has returned; it was called after set s returned, no other set has
\* written since, and the ttl of s's entry has not elapsed
GetAfterSet(g, s) ==
  /\ gets[g].pc = "done"
  /\ gets[g].after = s
  /\ lastWrite = s
  /\ ~Expired(RaceEntry(s, sets[s].timestamp, defaultTTL), now)

\* C22: under any interleaving of get and set calls on one key, a get that
\* starts after a set completed and before the ttl of its entry elapses
\* returns that set's data: no get removes the unexpired entry.
C22_GetReturnsCompletedSet ==
  \A g \in Getters : \A s \in Setters :
    GetAfterSet(g, s) => gets[g].value = <<s>>

\* ---- the analyzers run on a project tree ----

\* most runs of files a tree drawn as an input is made of
MaxRuns == 3

\* a file of a tree: the directories it lies in below the project path, its
\* name, the framework idiom of its content and where in the content it stands
TreeFile(dirs, name, idiom, at) ==
  [name |-> name, ver |-> FALSE, idiom |-> idiom, bad |-> FALSE, dirs |-> dirs,
   at |-> at, min |-> FALSE]

\* count files like f, listed one after the other
Run(f, count) == [file |-> f, count |-> count]

\* the runs trees are drawn from, in the order the directories are listed
RunUniverse ==
  << Run(TreeFile(<<"node_modules">>, N("dep", ".js"), "express", 0), maxFilesToAnalyze),
     Run(TreeFile(<<"node_modules">>, N("one", ".js"), NoVal, 0), 1),
     Run(TreeFile(<<>>, N("a", ".jsx"), "react", 4), 1),
     Run(TreeFile(<<>>, N("b", ".jsx"), "react", 0), 1),
     Run(TreeFile(<<>>, N("server", ".js"), "express", 0), 1),
     Run([TreeFile(<<>>, N("bundle.min", ".js"), NoVal, 0) EXCEPT !.min = TRUE], 1),
     Run(TreeFile(<<"src">>, N("app", ".py"), "flask", 4), 1),
     Run(TreeFile(<<"src">>, N("views", ".py"), "flask", 0), 1),
     Run(TreeFile(<<"src">>, N("util", ".js"), NoVal, 0), maxFilesToAnalyze),
     Run(TreeFile(<<"src", "vendor">>, N("lib", ".py"), NoVal, 0), 1) >>

\* the project paths: the working directory itself ('.'), and two absolute
\* paths, one of them below a directory named build
TreeRoots == {<<>>, <<"", "srv", "app">>, <<"", "srv", "build", "app">>}

\* the trees: up to MaxRuns runs, in listing order
Trees ==
  {SelectSeq(RunUniverse, LAMBDA r : r \in rs) :
     rs \in {x \in SUBSET Range(RunUniverse) : Cardinality(x) <= MaxRuns}}

RECURSIVE Copies(_, _)
Copies(f, count) == IF count = 0 THEN <<>> ELSE <<f>> \o Copies(f, count - 1)

RECURSIVE Listing(_, _)
\* listFilesRecursively(projectPath): path.join puts the project path before
\* every file
Listing(path, runs) ==
  IF runs = <<>> THEN <<>>
  ELSE Copies([Head(runs).file EXCEPT !.dirs = path \o @], Head(runs).count)
         \o Listing(path, Tail(runs))

TreeInit ==
  /\ NoCallInProgress
  /\ RaceIdle
  /\ KeyIdle
  /\ root \in TreeRoots
  /\ tree \in Trees
  /\ treeDetector \in {"python", "javascript"}
  /\ extensionOut = <<>>
  /\ sourceOut = <<>>

\* FileExtensionAnalyzer.analyze on the tree
AnalyzeExtensions ==
  /\ extensionOut = <<>>
  /\ extensionOut' = <<FileExtensionAnalyze(Listing(root, tree),
                                            fileExtensions(treeDetector))>>
  /\ UNCHANGED <<scoreVars, callVars, cacheVars, analysisVars, depVars,
                 raceVars, keyVars, root, tree, treeDetector, sourceOut>>

\* SourceCodeAnalyzer.analyze on the tree, with the detector's pattern table
AnalyzeSource ==
  /\ sourceOut = <<>>
  /\ sourceOut' = <<SourceCodeAnalyze(Listing(root, tree),
                                      frameworkPatterns(treeDetector))>>
  /\ UNCHANGED <<scoreVars, callVars, cacheVars, analysisVars, depVars,
                 raceVars, keyVars, root, tree, treeDetector, extensionOut>>

TreeNext == AnalyzeExtensions \/ AnalyzeSource

TreeSpec == TreeInit /\ [][TreeNext]_vars

\* ---- C24: the files SourceCodeAnalyzer samples ----

\* the directories of a listed file below the project path
Below(f) == SubSeq(f.dirs, Len(root) + 1, Len(f.dirs))

\* the file lies in a build-artifact directory of the project
InArtifactDirectory(f) == \E i \in 1..Len(Below(f)) : Below(f)[i] \in skipDirectories

\* the listed files
Listed == Listing(root, tree)

\* N: the source files of the project outside its build-artifact directories
SourceFilesOutside ==
  Cardinality({i \in 1..Len(Listed) : /\ Listed[i].name.ext \in SourceExtensions
                                      /\ ~InArtifactDirectory(Listed[i])})

\* C24: SourceCodeAnalyzer.analyze samples min(20, N) files, N the number of
\* source files outside build-artifact directories, and samples no file
\* inside such a directory.
C24_SamplesTwentyOutsideArtifacts ==
  sourceOut # <<>> =>
    /\ Len(sourceOut[1]) = Min(maxFilesToAnalyze, SourceFilesOutside)
    /\ \A i \in 1..Len(sourceOut[1]) : ~InArtifactDirectory(sourceOut[1][i].file)

\* ---- C25: the framework recorded for a sampled file ----

\* the first framework of the table with a regular expression matching the
\* content
FirstMatching(f, table) ==
  LET hits == {i \in 1..Len(table) : PatternsMatch(table[i], f.idiom)}
  IN IF hits = {} THEN NoVal ELSE table[CHOOSE i \in hits : \A j \in hits : i <= j]

\* C25: the framework recorded for each sampled source file is the first
\* framework of the pattern table with a regular expression matching the
\* file's content, whatever files were analysed before it.
C25_FrameworkFirstMatching ==
  sourceOut # <<>> =>
    \A i \in 1..Len(sourceOut[1]) :
      sourceOut[1][i].framework
        = FirstMatching(sourceOut[1][i].file, frameworkPatterns(treeDetector))

\* ---- C27: what the file-extension analyzer skips ----

\* C27: two project roots holding identical trees yield identical extension
\* observations, whatever the directories above the root are named.
C27_SkipsByRelativePath ==
  extensionOut # <<>> =>
    \A other \in TreeRoots :
      extensionOut[1] = FileExtensionAnalyze(Listing(other, tree),
                                             fileExtensions(treeDetector))

\* ---- C23: version pragma files ----

PragmaFiles ==
  {N("", ".python-version"), N("", ".node-version"), N("", ".ruby-version"),
   N("", ".go-version")}

\* the candidate config files of detector d that the project holds
ConfigFilesPresent(d) == {f \in project.files : f.name \in Range(configFiles(d))}

\* a detect call has ended on a project whose only config file for the
\* detector is a version pragma file
PragmaOnly ==
  /\ call.fn = "detect"
  /\ pc = "done"
  /\ project.valid
  /\ configResults.detector = call.detector
  /\ \E f \in project.files :
       ConfigFilesPresent(call.detector) = {f} /\ f.name \in PragmaFiles /\ f.ver

\* C23: when the only config file present for a detector is a version pragma
\* file, the config observation carries the detector's language and the
\* file's content as version, and the detector returns that content as
\* runtimeVersion.
C23_PragmaFileVersion ==
  PragmaOnly =>
    /\ Len(configResults.results) = 1
    /\ configResults.results[1].language = call.detector
    /\ configResults.results[1].version = ConfigVersion
    /\ detectOut.state = "returned"
    /\ detectOut.value.runtimeVersion = ConfigVersion

\* ---- C26: the marker-file fallback ----

\* a detect call has returned a framework
FrameworkReturned ==
  /\ call.fn = "detect"
  /\ pc = "done"
  /\ detectOut.state = "returned"
  /\ detectOut.value.framework # NoVal

\* the framework the same detector finds for the same project tree when the
\* server's working directory holds no marker file
FrameworkElsewhere == BaseDetect(call.detector, project, {}).value.framework

\* C26: the marker-file fallback looks under the projectPath passed to
\* detect, so a run returns the framework a run on the same project tree
\* returns in any other working directory.
C26_FrameworkIndependentOfCwd ==
  FrameworkReturned => detectOut.value.framework = FrameworkElsewhere

\* ---- C28: config versions and toolchain probes ----

ProbingDetectors == {"python", "ruby", "go", "rust"}

\* the call leaves the confidence threshold at its default
DefaultThreshold == DetectOptions = <<>>

\* a detect call of a probing detector has returned, and the shared flow had
\* resolved a runtimeVersion from the project's config files
ConfigVersionResolved ==
  /\ call.fn = "detect"
  /\ call.detector \in ProbingDetectors
  /\ pc = "done"
  /\ detectOut.state = "returned"
  /\ BaseDetect(call.detector, project, cwd).value.runtimeVersion # NoVal

\* C28: with the default confidence threshold a runtimeVersion resolved from
\* config-file evidence is never replaced by the version of an environment
\* or toolchain probe, and the probes run only when the shared flow produced
\* no evidence at all.
C28_ConfigVersionKept ==
  DefaultThreshold =>
    /\ pc \in {"probe", "wait"} => evidence = <<>>
    /\ ConfigVersionResolved =>
         detectOut.value.runtimeVersion
           = BaseDetect(call.detector, project, cwd).value.runtimeVersion

\* a Rust detect call with the default threshold returned the version its
\* Cargo.toml declares, on a machine where the call could have probed
C28_Witness ==
  /\ DefaultThreshold
  /\ ConfigVersionResolved
  /\ call.detector = "rust"
  /\ evidence # <<>>
  /\ detectOut.value.runtimeVersion = ConfigVersion

\* ---- C30: the errors and warnings of a getDependencies call ----

\* a getDependencies call that ran its extractors has returned its response
ExtractionAnswered ==
  /\ InDependencies(call)
  /\ pc = "done"
  /\ depsOut.state = "returned"

\* the errors and the warnings the response carries
ResponseErrors == Range(depsOut.content[1].text.errors)

ResponseWarnings == Range(depsOut.content[1].text.warnings)

AnsweredAfterModification ==
  /\ pc = "done"
  /\ now > 0
  /\ depModified

\* C29: after a dependency manifest or lockfile of the project is modified,
\* the next getDependencies call does not return the result cached before
\* the modification.
C29_ModificationInvalidates ==
  AnsweredAfterModification => ~depFromCache

====
